---- MODULE Spec2Model ----
(***************************************************************************)
(* Staff registry: staff records, the role/location lookup tables and the  *)
(* time-ranged assignment ledger (table staff_role_assignment), with the   *)
(* handlers that write the ledger and the queries that resolve the         *)
(* assignment shown for a staff member on a day.                           *)
(*                                                                         *)
(* The repository holds several definitions of the same endpoints          *)
(* (app/main.py, app/routers/admin.py, app/routers/api_staff.py,           *)
(* app/services/staff.py).  Each one is modelled as an operator of its     *)
(* own; the name says where it comes from:                                 *)
(*    Main...     app/main.py                                              *)
(*    Routers...  app/routers/admin.py                                     *)
(*    Api...      app/routers/api_staff.py                                 *)
(*    Services... app/services/staff.py                                    *)
(*                                                                         *)
(* Dates are integers (days).  A handler that runs inside                  *)
(* "with engine.begin()" is one transaction: an exception rolls every      *)
(* write of the handler back, which the sequential actions model by        *)
(* leaving the tables unchanged.  The session check (_admin_only) and the  *)
(* API key (require_admin) are taken as passed.                            *)
(***************************************************************************)
EXTENDS Integers, Sequences, FiniteSets, TLC

VARIABLES
    role,        \* table role: the set of role codes (code is UNIQUE, id <-> code)
    location,    \* table location: the set of location codes
    staff,       \* table staff: id -> row
    assignment,  \* table staff_role_assignment: id -> row
    today,       \* the value of date.today()
    resp,        \* the response of the last handler: [op, status]
    tx,          \* the open transactions of the concurrent writers: proc -> state
    device       \* table device: id -> row

vars == <<role, location, staff, assignment, today, resp, tx, device>>

-----------------------------------------------------------------------------
(* Bounds of the model *)

MaxRows == 2      \* rows the ledger may hold
MaxDate == 3      \* dates are 1..MaxDate (0 arises as "start - 1 day")
MaxStaff == 2     \* staff ids are 1..MaxStaff

(* SQL NULL / Python None: NULL in a date or row-id position, None in a     *)
(* text position (a code, a name; location_id holds the location's code).  *)
NULL == -1
None == "None"

Dates == 1..MaxDate
AssignIds == 1..MaxRows
StaffIds == 1..MaxStaff
Procs == {1, 2}

(* Seeded lookup rows: two of the seeded roles, one of the seeded locations *)
SeedRoles == {"RIDER", "STRAPPER"}
SeedLocations == {"CRANBOURNE"}
DASH == "-"                 \* stands for the em dash the forms send for "no location"
HxInputs == {FALSE}
EndInputs == Dates \cup {NULL}

-----------------------------------------------------------------------------
(* Rows *)

AssignmentRow(sid, rid, lid, st, en, p) ==
    [staff_id |-> sid, role_id |-> rid, location_id |-> lid,
     effective_start |-> st, effective_end |-> en, priority |-> p]

Response(op, status) == [op |-> op, status |-> status]

(* uuid_generate_v4(): any id not in use *)
FreeIds(tbl, ids) == ids \ DOMAIN tbl

Insert(tbl, id, row) == [i \in DOMAIN tbl \cup {id} |-> IF i = id THEN row ELSE tbl[i]]

RowsOf(tbl, sid) == {i \in DOMAIN tbl : tbl[i].staff_id = sid}

-----------------------------------------------------------------------------
(* Text helpers *)

RECURSIVE LStrip(_)
LStrip(s) == IF Len(s) > 0 /\ SubSeq(s, 1, 1) = " " THEN LStrip(SubSeq(s, 2, Len(s))) ELSE s

RECURSIVE RStrip(_)
RStrip(s) ==
    IF Len(s) > 0 /\ SubSeq(s, Len(s), Len(s)) = " "
    THEN RStrip(SubSeq(s, 1, Len(s) - 1)) ELSE s

(* str.strip() *)
Strip(s) == RStrip(LStrip(s))

(* Python truthiness of an optional text: None and "" are false *)
Truthy(v) == v # None /\ v # ""

(* f"{gn} {fn}".strip() with absent parts as "" *)
DisplayName(gn, fn) ==
    Strip((IF gn = None THEN "" ELSE gn) \o " " \o (IF fn = None THEN "" ELSE fn))

StaffRowNamed(gn, fn, dn, m, e, sd, ed, status) ==
    [given_name |-> gn, family_name |-> fn, display_name |-> dn,
     mobile |-> m, email |-> e, start_date |-> sd, end_date |-> ed,
     status |-> status]

(* a variant of the lookup below that finds nothing *)
StaffWithMobileNone(tbl, m) == {}

(* SELECT id FROM staff WHERE mobile = :m *)
StaffWithMobile(tbl, m) == {i \in DOMAIN tbl : tbl[i].mobile = m}

(* staff.mobile is UNIQUE: a table the database accepts *)
MobileUnique(tbl) ==
    \A i, j \in DOMAIN tbl : tbl[i].mobile = tbl[j].mobile => i = j

-----------------------------------------------------------------------------
(* Location code handling *)

(* (location_code or "").strip(), then "" and the dash mean "no location";  *)
(* a code that is not in the location table degrades to NULL.               *)
AdminLocId(locs, location_code) ==
    LET loc_code == Strip(IF location_code = None THEN "" ELSE location_code)
    IN  IF loc_code \in {"", DASH} THEN None
        ELSE IF loc_code \in locs THEN loc_code ELSE None

_normalize_loc_code(code) ==
    IF code = None THEN None
    ELSE IF Strip(code) \in {"", DASH} THEN None ELSE Strip(code)

UpsertLocId(locs, loc_code) ==
    LET c == _normalize_loc_code(loc_code)
    IN  IF c # None /\ c \in locs THEN c ELSE None

-----------------------------------------------------------------------------
(* The "current assignment" queries of the write path *)

(* a variant of the query below with effective_start < :st *)
RoutersCurrentRowsStrict(tbl, sid, st) ==
    {i \in {k \in DOMAIN tbl : tbl[k].staff_id = sid} :
        /\ tbl[i].effective_start < st
        /\ (tbl[i].effective_end = NULL \/ tbl[i].effective_end > st)}

(* WHERE staff_id = :sid AND effective_start <= :st                         *)
(*   AND (effective_end IS NULL OR effective_end > :st)                     *)
RoutersCurrentRows(tbl, sid, st) ==
    {i \in RowsOf(tbl, sid) :
        /\ tbl[i].effective_start <= st
        /\ (tbl[i].effective_end = NULL \/ tbl[i].effective_end > st)}

(* main.py: ... AND (effective_end IS NULL OR effective_end >= :st)         *)
MainCurrentRows(tbl, sid, st) ==
    {i \in RowsOf(tbl, sid) :
        /\ tbl[i].effective_start <= st
        /\ (tbl[i].effective_end = NULL \/ tbl[i].effective_end >= st)}

(* ORDER BY effective_start DESC LIMIT 1, .first(): one of the rows with    *)
(* the latest effective_start (SQL leaves the choice among equal starts     *)
(* open), NULL when there is none.                                          *)
FirstByStartDesc(tbl, rows) ==
    IF rows = {} THEN {NULL}
    ELSE {i \in rows : \A j \in rows : tbl[j].effective_start <= tbl[i].effective_start}

(* a variant of the update below that writes the day after :en, unguarded *)
CloseDayAfter(tbl, aid, en) ==
    IF aid \in DOMAIN tbl THEN [tbl EXCEPT ![aid].effective_end = en + 1] ELSE tbl

(* UPDATE staff_role_assignment SET effective_end = :en                     *)
(*  WHERE id = :aid AND (effective_end IS NULL OR effective_end > :en)      *)
GuardedClose(tbl, aid, en) ==
    IF aid \in DOMAIN tbl /\ (tbl[aid].effective_end = NULL \/ tbl[aid].effective_end > en)
    THEN [tbl EXCEPT ![aid].effective_end = en]
    ELSE tbl

(* a variant of the update below that writes the day after :en *)
SetEndDayAfter(tbl, aid, en) ==
    IF aid \in DOMAIN tbl THEN [tbl EXCEPT ![aid].effective_end = en + 1] ELSE tbl

(* UPDATE staff_role_assignment SET effective_end = :en WHERE id = :aid     *)
SetEnd(tbl, aid, en) ==
    IF aid \in DOMAIN tbl THEN [tbl EXCEPT ![aid].effective_end = en] ELSE tbl

(* a variant of the date below that is the new start itself *)
MainPrevEndSameDay(start) == start

(* main.py: new_prev_end = start - timedelta(days=1) *)
MainPrevEnd(start) == start - 1

(* a variant that closes the superseded row one day early *)
RoutersPrevEndDayBefore(start) == start - 1

(* routers/admin.py closes the superseded row at the new start itself *)
RoutersPrevEnd(start) == start

(* a variant of the comparison below that never finds the rows identical *)
SameRoleLocNever(row, rid, lid) == FALSE

SameRoleLoc(row, rid, lid) == row.role_id = rid /\ row.location_id = lid

-----------------------------------------------------------------------------
(* Read path: the assignment the staff listing shows *)

(* a.effective_start <= :D AND (a.effective_end IS NULL OR :D <= a.effective_end) *)
MatchesDay(row, D) ==
    row.effective_start <= D /\ (row.effective_end = NULL \/ D <= row.effective_end)

(* ORDER BY a.priority DESC, a.effective_start DESC, a.id DESC: i before j *)
ListBefore(tbl, i, j) ==
    \/ tbl[i].priority > tbl[j].priority
    \/ /\ tbl[i].priority = tbl[j].priority
       /\ tbl[i].effective_start > tbl[j].effective_start
    \/ /\ tbl[i].priority = tbl[j].priority
       /\ tbl[i].effective_start = tbl[j].effective_start
       /\ i > j

(* ... LIMIT 1 of a LEFT JOIN LATERAL: the first row, NULL when none *)
LateralFirst(tbl, rows) ==
    IF rows = {} THEN NULL
    ELSE CHOOSE i \in rows : \A j \in rows \ {i} : ListBefore(tbl, i, j)

(* main.py _fetch_staff_for_list: the lateral subquery filters on :D *)
MainListRows(tbl, sid, D) == {i \in RowsOf(tbl, sid) : MatchesDay(tbl[i], D)}

MainResolved(tbl, sid, D) == LateralFirst(tbl, MainListRows(tbl, sid, D))

(* services/staff.py fetch_staff_for_list: the lateral subquery has only     *)
(* WHERE a.staff_id = b.id; the parameter D is bound and never used.         *)
ServicesListRows(tbl, sid, D) == RowsOf(tbl, sid)

ServicesResolved(tbl, sid, D) == LateralFirst(tbl, ServicesListRows(tbl, sid, D))

(* the columns ar.role_code, ar.location_code of a listing row *)
ListColumns(tbl, aid) ==
    IF aid = NULL THEN [role_code |-> None, location_code |-> None]
    ELSE [role_code |-> tbl[aid].role_id, location_code |-> tbl[aid].location_id]

-----------------------------------------------------------------------------
(* The staff listing queries *)

UpperAlphabet == "ABCDEFGHIJKLMNOPQRSTUVWXYZ"
LowerAlphabet == "abcdefghijklmnopqrstuvwxyz"

LowerChar(c) ==
    IF \E k \in 1..Len(UpperAlphabet) : SubSeq(UpperAlphabet, k, k) = c
    THEN LET k == CHOOSE k \in 1..Len(UpperAlphabet) : SubSeq(UpperAlphabet, k, k) = c
         IN  SubSeq(LowerAlphabet, k, k)
    ELSE c

(* str.lower() *)
RECURSIVE Lower(_)
Lower(s) == IF Len(s) = 0 THEN s ELSE LowerChar(SubSeq(s, 1, 1)) \o Lower(SubSeq(s, 2, Len(s)))

(* text has q as a substring *)
Contains(text, q) ==
    \E k \in 1..(Len(text) - Len(q) + 1) : SubSeq(text, k, k + Len(q) - 1) = q

(* column ILIKE '%q%' for a q without wildcards; a NULL column matches nothing *)
ILike(column, q) == column # None /\ Contains(Lower(column), Lower(q))

(* (v or "").strip() *)
TextParam(v) == Strip(IF v = None THEN "" ELSE v)

(* status_norm = (status or "").strip().lower(), "" unless active/inactive *)
StatusNorm(status) ==
    LET status_norm == Lower(TextParam(status))
    IN  IF status_norm \in {"active", "inactive"} THEN status_norm ELSE ""

(* a variant of the lateral join below without LIMIT 1 *)
LateralRowsNoLimit(tbl, rows) == IF rows = {} THEN {NULL} ELSE rows

(* LEFT JOIN LATERAL (... LIMIT 1) ar ON TRUE: the rows joined to one staff  *)
(* row, the all-NULL row when the subquery is empty                          *)
LateralRows(tbl, rows) == {LateralFirst(tbl, rows)}

(* base b LEFT JOIN LATERAL ar: rows [id, aid], aid the joined assignment;  *)
(* rowsOf[sid] are the rows the lateral subquery selects for staff row sid   *)
Joined(st, tbl, rowsOf) ==
    UNION {{[id |-> sid, aid |-> a] : a \in LateralRows(tbl, rowsOf[sid])} : sid \in DOMAIN st}

(* main.py: (s.start_date <= :D AND :D <= COALESCE(s.end_date, '9999-12-31')) *)
MainBaseActive(row, D) == row.start_date <= D /\ (row.end_date = NULL \/ D <= row.end_date)

(* main.py: (b.base_active AND ar.role_code IS NOT NULL) AS is_active *)
MainIsActive(st, tbl, r, D) ==
    MainBaseActive(st[r.id], D) /\ ListColumns(tbl, r.aid).role_code # None

(* services/staff.py: (s.end_date IS NULL) AS base_active, selected as is_active *)
ServicesIsActive(st, tbl, r, D) == st[r.id].end_date = NULL

(* the WHERE clause both listing queries share *)
ListWhere(st, tbl, r, is_active, status_norm, role_code_s, loc_code_s, q_raw) ==
    /\ \/ status_norm = ""
       \/ status_norm = "active" /\ is_active
       \/ status_norm = "inactive" /\ ~is_active
    /\ (role_code_s = "" \/ ListColumns(tbl, r.aid).role_code = role_code_s)
    /\ (loc_code_s = "" \/ ListColumns(tbl, r.aid).location_code = loc_code_s)
    /\ \/ q_raw = ""
       \/ ILike(st[r.id].mobile, q_raw)
       \/ ILike(st[r.id].display_name, q_raw)
       \/ ILike(st[r.id].given_name, q_raw)
       \/ ILike(st[r.id].family_name, q_raw)

(* main.py _fetch_staff_for_list: the rows of the result *)
MainFetchStaffForList(st, tbl, day, role_code, loc_code, status, q) ==
    LET rowsOf == [sid \in DOMAIN st |-> MainListRows(tbl, sid, day)]
    IN  {r \in Joined(st, tbl, rowsOf) :
            ListWhere(st, tbl, r, MainIsActive(st, tbl, r, day), StatusNorm(status),
                      TextParam(role_code), TextParam(loc_code), TextParam(q))}

(* services/staff.py fetch_staff_for_list: the rows of the result *)
ServicesFetchStaffForList(st, tbl, day, role_code, loc_code, status, q) ==
    LET rowsOf == [sid \in DOMAIN st |-> ServicesListRows(tbl, sid, day)]
    IN  {r \in Joined(st, tbl, rowsOf) :
            ListWhere(st, tbl, r, ServicesIsActive(st, tbl, r, day), StatusNorm(status),
                      TextParam(role_code), TextParam(loc_code), TextParam(q))}

(* The characters of the names in collation order *)
Collation == " 0123456789ABCDEFGHIJKLMNOPQRSTUVWXYZabcdefghijklmnopqrstuvwxyz"

Rank(c) == CHOOSE k \in 1..Len(Collation) : SubSeq(Collation, k, k) = c

(* a < b for two texts *)
RECURSIVE TextLess(_, _)
TextLess(a, b) ==
    IF Len(b) = 0 THEN FALSE
    ELSE IF Len(a) = 0 THEN TRUE
    ELSE LET x == Rank(SubSeq(a, 1, 1))
             y == Rank(SubSeq(b, 1, 1))
         IN  x < y \/ (x = y /\ TextLess(SubSeq(a, 2, Len(a)), SubSeq(b, 2, Len(b))))

(* ascending order of a column, NULLs last *)
ColumnLess(a, b) == a # None /\ (b = None \/ TextLess(a, b))

(* ORDER BY family_name, given_name: row i sorts strictly before row j *)
NameBefore(st, i, j) ==
    \/ ColumnLess(st[i].family_name, st[j].family_name)
    \/ /\ st[i].family_name = st[j].family_name
       /\ ColumnLess(st[i].given_name, st[j].given_name)

(* the sequences of ids a query with that ORDER BY can return: rows with    *)
(* equal names come in any order                                            *)
Ordered(st, ids) ==
    {seq \in [1..Cardinality(ids) -> ids] :
        /\ \A a, b \in DOMAIN seq : a # b => seq[a] # seq[b]
        /\ \A a, b \in DOMAIN seq : a < b => ~NameBefore(st, seq[b], seq[a])}

IdsOf(rows) == {r.id : r \in rows}

(* COALESCE(:param, column) = column, which is not true for a NULL column *)
CoalesceEq(param, column) == column # None /\ (param = None \/ param = column)

(* main.py get_staff (GET /staff?d=&role=&location=): the id sequences *)
MainGetStaff(st, tbl, d, role_code, loc_code) ==
    Ordered(st, {sid \in DOMAIN st :
                   /\ MainBaseActive(st[sid], d)
                   /\ \E i \in MainListRows(tbl, sid, d) :
                         /\ CoalesceEq(role_code, tbl[i].role_id)
                         /\ CoalesceEq(loc_code, tbl[i].location_id)})

(* day = _date.fromisoformat(d) if d else _date.today() *)
DayOr(d, now) == IF d = NULL THEN now ELSE d

(* main.py admin_staff_export_csv: the id column of the CSV *)
MainAdminStaffExportCsv(st, tbl, now, d, role_code, loc_code, status, q) ==
    Ordered(st, IdsOf(MainFetchStaffForList(st, tbl, DayOr(d, now), role_code, loc_code, status, q)))

(* routers/admin.py admin_staff_export_csv: the id column of the CSV *)
RoutersAdminStaffExportCsv(st, tbl, now, d, role_code, loc_code, status, q) ==
    Ordered(st, IdsOf(ServicesFetchStaffForList(st, tbl, DayOr(d, now), role_code, loc_code, status, q)))

(* routers/admin.py admin_staff_list, JSON branch: day = _date.today() *)
RoutersAdminStaffListJson(st, tbl, now, d, role_code, loc_code, status, q) ==
    Ordered(st, IdsOf(ServicesFetchStaffForList(st, tbl, now, role_code, loc_code, status, q)))

-----------------------------------------------------------------------------
(* Initial states *)

NoTx == [pc |-> "idle", sid |-> NULL, rid |-> None, lid |-> None,
         st |-> NULL, en |-> NULL, cur |-> NULL, closed |-> NULL]

(* The database after bootstrap (seeded lookup tables) and the creation of  *)
(* the staff records 1..MaxStaff-1, each with a mobile of its own; staff id *)
(* MaxStaff is in use by no row.                                            *)
Mobile(i) == "04" \o ToString(i)

Init ==
    /\ role = SeedRoles
    /\ location = SeedLocations
    /\ staff = [i \in 1..(MaxStaff - 1) |->
                  [given_name |-> "Jane", family_name |-> "Doe", display_name |-> "Jane Doe",
                   mobile |-> Mobile(i), email |-> None, start_date |-> 1,
                   end_date |-> NULL, status |-> "ACTIVE"]]
    /\ assignment = <<>>
    /\ today = 1
    /\ resp = Response("none", 0)
    /\ tx = [p \in Procs |-> NoTx]
    /\ device = <<>>

-----------------------------------------------------------------------------
(* Handlers that write the ledger *)

(* routers/admin.py admin_add_assignment.  Without the hx-request header    *)
(* the answer is a 303 redirect on every path, with it the assignments      *)
(* table (200).  The INSERT of a row for a staff id that is not in table    *)
(* staff violates the foreign key: the exception leaves the handler (500)   *)
(* and the transaction is rolled back.                                      *)
RoutersAdminAddAssignment(sid, role_code, location_code, start, end, hx) ==
    LET answer == Response("routers_admin_add_assignment", IF hx THEN 200 ELSE 303)
        loc_id == AdminLocId(location, location_code)
    IN  /\ UNCHANGED <<role, location, staff, today, tx, device>>
        /\ IF role_code \notin role
           THEN /\ resp' = answer
                /\ UNCHANGED assignment
           ELSE \E current \in FirstByStartDesc(assignment, RoutersCurrentRows(assignment, sid, start)) :
                  IF current # NULL /\ SameRoleLoc(assignment[current], role_code, loc_id)
                  THEN /\ resp' = answer
                       /\ IF end # NULL /\ (assignment[current].effective_end = NULL
                                             \/ assignment[current].effective_end # end)
                          THEN assignment' = SetEnd(assignment, current, end)
                          ELSE UNCHANGED assignment
                  ELSE IF sid \notin DOMAIN staff
                  THEN /\ resp' = Response("routers_admin_add_assignment", 500)
                       /\ UNCHANGED assignment
                  ELSE /\ resp' = answer
                       /\ \E new_id \in FreeIds(assignment, AssignIds) :
                            assignment' =
                              Insert(GuardedClose(assignment, current, RoutersPrevEnd(start)),
                                     new_id,
                                     AssignmentRow(sid, role_code, loc_id, start, end, 0))

(* main.py admin_add_assignment: the current row is read with an inclusive  *)
(* end and closed at start - 1 day; an unknown role answers 400 under       *)
(* hx-request.                                                              *)
MainAdminAddAssignment(sid, role_code, location_code, start, end, hx) ==
    LET answer == Response("main_admin_add_assignment", IF hx THEN 200 ELSE 303)
        loc_id == AdminLocId(location, location_code)
    IN  /\ UNCHANGED <<role, location, staff, today, tx, device>>
        /\ IF role_code \notin role
           THEN /\ resp' = Response("main_admin_add_assignment", IF hx THEN 400 ELSE 303)
                /\ UNCHANGED assignment
           ELSE \E current \in FirstByStartDesc(assignment, MainCurrentRows(assignment, sid, start)) :
                  IF current # NULL /\ SameRoleLoc(assignment[current], role_code, loc_id)
                  THEN /\ resp' = answer
                       /\ IF end # NULL /\ (assignment[current].effective_end = NULL
                                             \/ assignment[current].effective_end # end)
                          THEN assignment' = SetEnd(assignment, current, end)
                          ELSE UNCHANGED assignment
                  ELSE IF sid \notin DOMAIN staff
                  THEN /\ resp' = Response("main_admin_add_assignment", 500)
                       /\ UNCHANGED assignment
                  ELSE /\ resp' = answer
                       /\ \E new_id \in FreeIds(assignment, AssignIds) :
                            assignment' =
                              Insert(GuardedClose(assignment, current, MainPrevEnd(start)),
                                     new_id,
                                     AssignmentRow(sid, role_code, loc_id, start, end, 0))

(* a variant of the query below with COALESCE(a.effective_end, ...) > :new_start *)
OverlapRowsHalfOpen(tbl, sid, rid, lid, new_start, new_end) ==
    {i \in RowsOf(tbl, sid) :
        /\ SameRoleLoc(tbl[i], rid, lid)
        /\ (new_end = NULL \/ tbl[i].effective_start <= new_end)
        /\ (tbl[i].effective_end = NULL \/ tbl[i].effective_end > new_start)}

(* main.py add_role_assignment, the overlap query: a row of the same staff, *)
(* role and location whose interval meets [new_start, new_end], both ends   *)
(* inclusive, NULL standing for DATE '9999-12-31'.                          *)
OverlapRows(tbl, sid, rid, lid, new_start, new_end) ==
    {i \in RowsOf(tbl, sid) :
        /\ SameRoleLoc(tbl[i], rid, lid)
        /\ (new_end = NULL \/ tbl[i].effective_start <= new_end)
        /\ (tbl[i].effective_end = NULL \/ tbl[i].effective_end >= new_start)}

(* RoleAssignCreate._strip_codes leaves "" and None as they are; the        *)
(* handler tests "if payload.location_code", so both mean no location.      *)
ApiLocGiven(location_code) == location_code # None /\ location_code # ""

MainAddRoleAssignment(sid, role_code, location_code, start, end, priority) ==
    LET op == "add_role_assignment"
        loc_id == IF ApiLocGiven(location_code) THEN location_code ELSE None
    IN  /\ UNCHANGED <<role, location, staff, today, tx, device>>
        /\ IF sid \notin DOMAIN staff
           THEN resp' = Response(op, 404) /\ UNCHANGED assignment
           ELSE IF role_code \notin role
           THEN resp' = Response(op, 400) /\ UNCHANGED assignment
           ELSE IF ApiLocGiven(location_code) /\ location_code \notin location
           THEN resp' = Response(op, 400) /\ UNCHANGED assignment
           ELSE IF OverlapRows(assignment, sid, role_code, loc_id, start, end) # {}
           THEN resp' = Response(op, 409) /\ UNCHANGED assignment
           ELSE /\ resp' = Response(op, 201)
                /\ \E new_id \in FreeIds(assignment, AssignIds) :
                     assignment' = Insert(assignment, new_id,
                                     AssignmentRow(sid, role_code, loc_id, start, end, priority))

(* main.py end_role_assignment: the body is EndAssignment(end_date=today)   *)
MainEndRoleAssignment(sid, aid) ==
    LET op == "end_role_assignment"
        found == aid \in DOMAIN assignment /\ assignment[aid].staff_id = sid
    IN  /\ UNCHANGED <<role, location, staff, today, tx, device>>
        /\ IF ~found
           THEN resp' = Response(op, 404) /\ UNCHANGED assignment
           ELSE IF today < assignment[aid].effective_start
           THEN resp' = Response(op, 400) /\ UNCHANGED assignment
           ELSE resp' = Response(op, 200) /\ assignment' = SetEnd(assignment, aid, today)

(* main.py admin_end_assignment: end_date is the form field, today when it  *)
(* is missing; the update is skipped without an error when the row is not   *)
(* found for the staff member or the date precedes its effective_start.     *)
MainAdminEndAssignment(sid, aid, end_date, hx) ==
    LET d == IF end_date = NULL THEN today ELSE end_date
        found == aid \in DOMAIN assignment /\ assignment[aid].staff_id = sid
    IN  /\ UNCHANGED <<role, location, staff, today, tx, device>>
        /\ resp' = Response("admin_end_assignment", IF hx THEN 200 ELSE 303)
        /\ IF found /\ d >= assignment[aid].effective_start
           THEN assignment' = SetEnd(assignment, aid, d)
           ELSE UNCHANGED assignment

-----------------------------------------------------------------------------
(* a variant of the upsert below that writes the row whether or not the     *)
(* role code resolves                                                       *)
UpsertCurrentAssignmentAnyRole(tbl, sid, role_code, loc_code, start) ==
    IF ~Truthy(role_code) THEN {tbl}
    ELSE LET loc_id == UpsertLocId(location, loc_code)
             After(current) ==
                 IF current # NULL /\ SameRoleLoc(tbl[current], role_code, loc_id)
                 THEN {tbl}
                 ELSE {Insert(GuardedClose(tbl, current, RoutersPrevEnd(start)), new_id,
                              AssignmentRow(sid, role_code, loc_id, start, NULL, 0)) :
                         new_id \in FreeIds(tbl, AssignIds)}
         IN  UNION {After(current) :
                      current \in FirstByStartDesc(tbl, RoutersCurrentRows(tbl, sid, start))}

(* routers/admin.py _upsert_current_assignment(conn, staff_id, role_code,   *)
(* loc_code, start): the ledgers it can leave.  A missing or unknown role   *)
(* returns without a write.                                                 *)
UpsertCurrentAssignment(tbl, sid, role_code, loc_code, start) ==
    IF ~Truthy(role_code) \/ role_code \notin role THEN {tbl}
    ELSE LET loc_id == UpsertLocId(location, loc_code)
             After(current) ==
                 IF current # NULL /\ SameRoleLoc(tbl[current], role_code, loc_id)
                 THEN {tbl}
                 ELSE {Insert(GuardedClose(tbl, current, RoutersPrevEnd(start)), new_id,
                              AssignmentRow(sid, role_code, loc_id, start, NULL, 0)) :
                         new_id \in FreeIds(tbl, AssignIds)}
         IN  UNION {After(current) :
                      current \in FirstByStartDesc(tbl, RoutersCurrentRows(tbl, sid, start))}

(* a variant of the update below that also moves the start of the row *)
CloseAllOnMovingStart(tbl, sid, d) ==
    [i \in DOMAIN tbl |->
        IF /\ tbl[i].staff_id = sid
           /\ tbl[i].effective_start <= d
           /\ (tbl[i].effective_end = NULL \/ d < tbl[i].effective_end)
        THEN [tbl[i] EXCEPT !.effective_end = d, !.effective_start = d]
        ELSE tbl[i]]

(* a variant of the update below without effective_start <= :d *)
CloseAllOnAnyStart(tbl, sid, d) ==
    [i \in DOMAIN tbl |->
        IF /\ tbl[i].staff_id = sid
           /\ (tbl[i].effective_end = NULL \/ d < tbl[i].effective_end)
        THEN [tbl[i] EXCEPT !.effective_end = d]
        ELSE tbl[i]]

(* UPDATE staff_role_assignment SET effective_end = :d WHERE staff_id = :sid *)
(*   AND effective_start <= :d AND (effective_end IS NULL OR :d < effective_end) *)
CloseAllOn(tbl, sid, d) ==
    [i \in DOMAIN tbl |->
        IF /\ tbl[i].staff_id = sid
           /\ tbl[i].effective_start <= d
           /\ (tbl[i].effective_end = NULL \/ d < tbl[i].effective_end)
        THEN [tbl[i] EXCEPT !.effective_end = d]
        ELSE tbl[i]]

-----------------------------------------------------------------------------
(* Handlers that create staff *)

(* a variant of the handler below whose staff INSERT outlives the 400 *)
MainCreateStaffNoRollback(gn, fn, mobile_raw, start_date, email, primary_role_code, location_code) ==
    LET op == "create_staff"
        mobile == Strip(mobile_raw)
        withRole == Truthy(primary_role_code) /\ Truthy(location_code)
        resolved == primary_role_code \in role /\ location_code \in location
    IN  /\ UNCHANGED <<role, location, today, tx, device>>
        /\ IF StaffWithMobile(staff, mobile) # {}
           THEN resp' = Response(op, 409) /\ UNCHANGED <<staff, assignment>>
           ELSE /\ resp' = Response(op, IF withRole /\ ~resolved THEN 400 ELSE 201)
                /\ \E staff_id \in FreeIds(staff, StaffIds) :
                     /\ staff' = Insert(staff, staff_id,
                                   StaffRowNamed(gn, fn, DisplayName(gn, fn), mobile, email,
                                                 start_date, NULL, "ACTIVE"))
                     /\ IF withRole /\ resolved
                        THEN \E new_id \in FreeIds(assignment, AssignIds) :
                               assignment' = Insert(assignment, new_id,
                                   AssignmentRow(staff_id, primary_role_code, location_code,
                                                 start_date, NULL, 0))
                        ELSE UNCHANGED assignment

(* main.py create_staff (POST /staff).  StaffCreate strips the mobile.  A   *)
(* role or location code that does not resolve raises 400 inside the        *)
(* transaction, which rolls the staff INSERT back.                          *)
MainCreateStaff(gn, fn, mobile_raw, start_date, email, primary_role_code, location_code) ==
    LET op == "create_staff"
        mobile == Strip(mobile_raw)
        withRole == Truthy(primary_role_code) /\ Truthy(location_code)
    IN  /\ UNCHANGED <<role, location, today, tx, device>>
        /\ IF StaffWithMobile(staff, mobile) # {}
           THEN resp' = Response(op, 409) /\ UNCHANGED <<staff, assignment>>
           ELSE IF withRole /\ (primary_role_code \notin role \/ location_code \notin location)
           THEN resp' = Response(op, 400) /\ UNCHANGED <<staff, assignment>>
           ELSE /\ resp' = Response(op, 201)
                /\ \E staff_id \in FreeIds(staff, StaffIds) :
                     /\ staff' = Insert(staff, staff_id,
                                   StaffRowNamed(gn, fn, DisplayName(gn, fn), mobile, email,
                                                 start_date, NULL, "ACTIVE"))
                     /\ IF withRole
                        THEN \E new_id \in FreeIds(assignment, AssignIds) :
                               assignment' = Insert(assignment, new_id,
                                   AssignmentRow(staff_id, primary_role_code, location_code,
                                                 start_date, NULL, 0))
                        ELSE UNCHANGED assignment

(* routers/admin.py admin_staff_create_json (POST /admin/staff, JSON        *)
(* callers).  A known mobile answers 200 with the existing record.          *)
RoutersAdminStaffCreateJson(gn, fn, phone, email, is_active, role_code, loc_code) ==
    LET op == "admin_staff_create_json"
        end_for_insert == IF is_active THEN NULL ELSE today
    IN  /\ UNCHANGED <<role, location, today, tx, device>>
        /\ IF ~(Truthy(gn) /\ Truthy(fn) /\ Truthy(phone))
           THEN resp' = Response(op, 400) /\ UNCHANGED <<staff, assignment>>
           ELSE IF StaffWithMobile(staff, Strip(phone)) # {}
           THEN resp' = Response(op, 200) /\ UNCHANGED <<staff, assignment>>
           ELSE /\ resp' = Response(op, 200)
                /\ \E staff_id \in FreeIds(staff, StaffIds) :
                     /\ staff' = Insert(staff, staff_id,
                                   StaffRowNamed(gn, fn, DisplayName(gn, fn), Strip(phone), email,
                                                 today, end_for_insert,
                                                 IF is_active THEN "ACTIVE" ELSE "INACTIVE"))
                     /\ assignment' \in
                          UpsertCurrentAssignment(assignment, staff_id, role_code, loc_code, today)

(* routers/api_staff.py api_staff_create (POST /api/staff) *)
ApiStaffCreate(gn, fn, phone, email, is_active) ==
    LET op == "api_staff_create"
    IN  /\ UNCHANGED <<role, location, assignment, today, tx, device>>
        /\ IF ~(Truthy(gn) /\ Truthy(fn) /\ Truthy(phone))
           THEN resp' = Response(op, 400) /\ UNCHANGED staff
           ELSE IF StaffWithMobile(staff, Strip(phone)) # {}
           THEN resp' = Response(op, 409) /\ UNCHANGED staff
           ELSE /\ resp' = Response(op, 201)
                /\ \E staff_id \in FreeIds(staff, StaffIds) :
                     staff' = Insert(staff, staff_id,
                                StaffRowNamed(gn, fn, DisplayName(gn, fn), Strip(phone), email,
                                              today, IF is_active THEN NULL ELSE today,
                                              "ACTIVE"))

-----------------------------------------------------------------------------
(* Handlers that update staff *)

(* The SET list the JSON updates build: a field that is None is not set.    *)
(* active is None, TRUE or FALSE; withStatus says whether the status        *)
(* column is written with end_date (routers/admin.py) or not (api_staff).   *)
JsonUpdatedRow(row, gn, fn, phone, email, active, withStatus) ==
    LET r1 == IF gn # None THEN [row EXCEPT !.given_name = gn] ELSE row
        r2 == IF fn # None THEN [r1 EXCEPT !.family_name = fn] ELSE r1
        r3 == IF gn # None \/ fn # None
              THEN [r2 EXCEPT !.display_name = DisplayName(gn, fn)] ELSE r2
        r4 == IF phone # None THEN [r3 EXCEPT !.mobile = phone] ELSE r3
        r5 == IF email # None THEN [r4 EXCEPT !.email = email] ELSE r4
        r6 == IF active = None THEN r5
              ELSE IF active = "true" THEN [r5 EXCEPT !.end_date = NULL]
              ELSE [r5 EXCEPT !.end_date = today]
    IN  IF active = None \/ ~withStatus THEN r6
        ELSE [r6 EXCEPT !.status = IF active = "true" THEN "ACTIVE" ELSE "INACTIVE"]

(* routers/admin.py admin_staff_update_json (PUT /admin/staff/{id}).  The   *)
(* handler has no duplicate check: an UPDATE that breaks UNIQUE(mobile)     *)
(* raises IntegrityError, which leaves the handler (500) and rolls back.    *)
RoutersAdminStaffUpdateJson(sid, gn, fn, phone, email, active, role_code, loc_code) ==
    LET op == "admin_staff_update_json"
    IN  /\ UNCHANGED <<role, location, today, tx, device>>
        /\ IF sid \notin DOMAIN staff
           THEN resp' = Response(op, 404) /\ UNCHANGED <<staff, assignment>>
           ELSE LET updated == [staff EXCEPT ![sid] =
                                   JsonUpdatedRow(staff[sid], gn, fn, phone, email, active, TRUE)]
                IN  IF ~MobileUnique(updated)
                    THEN resp' = Response(op, 500) /\ UNCHANGED <<staff, assignment>>
                    ELSE /\ resp' = Response(op, 200)
                         /\ staff' = updated
                         /\ \E upserted \in
                                (IF role_code # None \/ loc_code # None
                                 THEN UpsertCurrentAssignment(assignment, sid, role_code, loc_code, today)
                                 ELSE {assignment}) :
                              assignment' = IF active = "false"
                                            THEN CloseAllOn(upserted, sid, today)
                                            ELSE upserted

(* routers/api_staff.py api_staff_update (PUT /api/staff/{id}) *)
ApiStaffUpdate(sid, gn, fn, phone, email, active) ==
    LET op == "api_staff_update"
    IN  /\ UNCHANGED <<role, location, assignment, today, tx, device>>
        /\ IF sid \notin DOMAIN staff
           THEN resp' = Response(op, 404) /\ UNCHANGED staff
           ELSE LET updated == [staff EXCEPT ![sid] =
                                   JsonUpdatedRow(staff[sid], gn, fn, phone, email, active, FALSE)]
                IN  IF ~MobileUnique(updated)
                    THEN resp' = Response(op, 500) /\ UNCHANGED staff
                    ELSE resp' = Response(op, 200) /\ staff' = updated

(* main.py admin_staff_update (POST /admin/staff/{id}/update).  The         *)
(* duplicate check answers 400; there is no check that the id exists: the   *)
(* UPDATE then matches no row and the handler redirects (303).              *)
MainAdminStaffUpdate(sid, given_name, family_name, mobile, email, start_date, end_date) ==
    LET op == "admin_staff_update"
        m == Strip(mobile)
    IN  /\ UNCHANGED <<role, location, assignment, today, tx, device>>
        /\ IF StaffWithMobile(staff, m) \ {sid} # {}
           THEN resp' = Response(op, 400) /\ UNCHANGED staff
           ELSE /\ resp' = Response(op, 303)
                /\ IF sid \in DOMAIN staff
                   THEN staff' = [staff EXCEPT ![sid] =
                            [@ EXCEPT !.given_name = Strip(given_name),
                                      !.family_name = Strip(family_name),
                                      !.display_name = DisplayName(given_name, family_name),
                                      !.mobile = m,
                                      !.email = IF Truthy(email) THEN email ELSE None,
                                      !.start_date = start_date,
                                      !.end_date = end_date]]
                   ELSE UNCHANGED staff

(* the calendar day passes *)
Tick ==
    /\ today < MaxDate
    /\ today' = today + 1
    /\ UNCHANGED <<role, location, staff, assignment, resp, tx, device>>

-----------------------------------------------------------------------------
(* The ledger under the admin forms, the JSON API and the JSON staff update *)
(* that carries a role, one handler at a time.                              *)

(* Inputs of this specification: the staff ids in use, the seeded role      *)
(* codes, a blank or a seeded location code, priority 0.                    *)
KnownStaff == 1..(MaxStaff - 1)
FormLocInputs == {"", "CRANBOURNE"}

DoRoutersAdminAddAssignment ==
    \E sid \in KnownStaff, rc \in SeedRoles, lc \in FormLocInputs, st \in Dates,
       en \in EndInputs, hx \in HxInputs :
        RoutersAdminAddAssignment(sid, rc, lc, st, en, hx)

DoMainAdminAddAssignment ==
    \E sid \in KnownStaff, rc \in SeedRoles, lc \in FormLocInputs, st \in Dates,
       en \in EndInputs, hx \in HxInputs :
        MainAdminAddAssignment(sid, rc, lc, st, en, hx)

DoMainAddRoleAssignment ==
    \E sid \in KnownStaff, rc \in SeedRoles, lc \in FormLocInputs, st \in Dates,
       en \in EndInputs :
        MainAddRoleAssignment(sid, rc, lc, st, en, 0)

(* PUT /admin/staff/{id} with a body that holds only role and location *)
DoRoutersUpdateRole ==
    \E sid \in KnownStaff, rc \in SeedRoles, lc \in FormLocInputs :
        RoutersAdminStaffUpdateJson(sid, None, None, None, None, None, rc, lc)

DoMainEndRoleAssignment ==
    \E sid \in StaffIds, aid \in AssignIds : MainEndRoleAssignment(sid, aid)

DoMainAdminEndAssignment ==
    \E sid \in StaffIds, aid \in AssignIds, d \in EndInputs, hx \in HxInputs :
        MainAdminEndAssignment(sid, aid, d, hx)

Next ==
    \/ DoRoutersAdminAddAssignment
    \/ DoMainAdminAddAssignment
    \/ DoMainAddRoleAssignment
    \/ DoRoutersUpdateRole

Spec == Init /\ [][Next]_vars

(* The same handlers, started from a ledger that already holds one          *)
(* assignment: an open-ended row that an earlier admin_add_assignment       *)
(* created for the last day of the calendar.                                *)
HistoryId == MaxRows + 1

InitHistory ==
    /\ role = SeedRoles
    /\ location = SeedLocations
    /\ staff = [i \in 1..(MaxStaff - 1) |->
                  StaffRowNamed("Jane", "Doe", "Jane Doe", Mobile(i), None, 1, NULL, "ACTIVE")]
    /\ assignment = (HistoryId :> AssignmentRow(1, "RIDER", None, MaxDate, NULL, 0))
    /\ today = 1
    /\ resp = Response("none", 0)
    /\ tx = [p \in Procs |-> NoTx]
    /\ device = <<>>

SpecHistory == InitHistory /\ [][Next]_vars

-----------------------------------------------------------------------------
(* Ending assignments: the JSON API creates open-ended assignments, both    *)
(* end handlers end them, the calendar day advances.                        *)

DoAddOpenEnded ==
    \E sid \in KnownStaff, rc \in SeedRoles, st \in Dates :
        MainAddRoleAssignment(sid, rc, "", st, NULL, 0)

NextEnd ==
    \/ DoAddOpenEnded
    \/ DoMainEndRoleAssignment
    \/ DoMainAdminEndAssignment
    \/ Tick

SpecEnd == Init /\ [][NextEnd]_vars

-----------------------------------------------------------------------------
(* Staff records: the three create handlers and the three update handlers,  *)
(* started from an empty staff table.                                       *)

MobileInputs == {"041", " 041", "042"}
StaffRoleInputs == {None, "RIDER"}

InitStaff ==
    /\ role = SeedRoles
    /\ location = SeedLocations
    /\ staff = <<>>
    /\ assignment = <<>>
    /\ today = 1
    /\ resp = Response("none", 0)
    /\ tx = [p \in Procs |-> NoTx]
    /\ device = <<>>

DoMainCreateStaff ==
    \E m \in MobileInputs, rc \in StaffRoleInputs :
        MainCreateStaff("Jane", "Doe", m, today, None, rc, "CRANBOURNE")

DoRoutersAdminStaffCreateJson ==
    \E m \in MobileInputs, rc \in StaffRoleInputs :
        RoutersAdminStaffCreateJson("Jane", "Doe", m, None, TRUE, rc, None)

DoApiStaffCreate ==
    \E m \in MobileInputs : ApiStaffCreate("Jane", "Doe", m, None, TRUE)

DoRoutersAdminStaffUpdateJson ==
    \E sid \in StaffIds, m \in MobileInputs \cup {None} :
        RoutersAdminStaffUpdateJson(sid, None, None, m, None, None, None, None)

DoApiStaffUpdate ==
    \E sid \in StaffIds, m \in MobileInputs \cup {None} :
        ApiStaffUpdate(sid, None, None, m, None, None)

DoMainAdminStaffUpdate ==
    \E sid \in StaffIds, m \in MobileInputs :
        MainAdminStaffUpdate(sid, "Jane", "Doe", m, "", 1, NULL)

NextStaff ==
    \/ DoMainCreateStaff
    \/ DoRoutersAdminStaffCreateJson
    \/ DoApiStaffCreate
    \/ DoRoutersAdminStaffUpdateJson
    \/ DoApiStaffUpdate
    \/ DoMainAdminStaffUpdate

SpecStaff == InitStaff /\ [][NextStaff]_vars

-----------------------------------------------------------------------------
(* routers/admin.py admin_add_assignment under concurrent requests.  Each   *)
(* request runs in a transaction of its own (engine.begin()) at the         *)
(* database's default isolation, READ COMMITTED: a statement sees what was  *)
(* committed when it starts; an UPDATE waits for a transaction that holds   *)
(* an uncommitted update of the row and then tests its WHERE clause on the  *)
(* committed row.  The handler takes no lock of its own.  The form leaves   *)
(* effective_end blank.                                                     *)

(* the SELECTs: role, location, current; the identity branch writes nothing *)
TxSelect(p, sid, role_code, location_code, start) ==
    LET answer == Response("routers_admin_add_assignment", 303)
        loc_id == AdminLocId(location, location_code)
    IN  /\ tx[p].pc = "idle"
        /\ UNCHANGED <<role, location, staff, assignment, today, device>>
        /\ IF role_code \notin role
           THEN resp' = answer /\ UNCHANGED tx
           ELSE \E current \in FirstByStartDesc(assignment, RoutersCurrentRows(assignment, sid, start)) :
                  IF current # NULL /\ SameRoleLoc(assignment[current], role_code, loc_id)
                  THEN resp' = answer /\ UNCHANGED tx
                  ELSE /\ UNCHANGED resp
                       /\ tx' = [tx EXCEPT ![p] =
                                   [pc |-> IF current # NULL THEN "update" ELSE "insert",
                                    sid |-> sid, rid |-> role_code, lid |-> loc_id,
                                    st |-> start, en |-> NULL, cur |-> current,
                                    closed |-> NULL]]

(* the guarded UPDATE of the row read as current; it takes effect at commit *)
TxUpdate(p) ==
    /\ tx[p].pc = "update"
    /\ \A q \in Procs \ {p} : tx[q].closed # tx[p].cur
    /\ tx' = [tx EXCEPT ![p].pc = "insert",
                        ![p].closed =
                            IF GuardedClose(assignment, tx[p].cur, RoutersPrevEnd(tx[p].st)) # assignment
                            THEN tx[p].cur ELSE NULL]
    /\ UNCHANGED <<role, location, staff, assignment, today, resp, device>>

(* the INSERT and the commit at the end of the with block *)
TxInsertCommit(p) ==
    /\ tx[p].pc = "insert"
    /\ UNCHANGED <<role, location, staff, today, device>>
    /\ tx' = [tx EXCEPT ![p] = NoTx]
    /\ IF tx[p].sid \notin DOMAIN staff
       THEN /\ resp' = Response("routers_admin_add_assignment", 500)
            /\ UNCHANGED assignment
       ELSE /\ resp' = Response("routers_admin_add_assignment", 303)
            /\ \E new_id \in FreeIds(assignment, AssignIds) :
                 assignment' =
                   Insert(IF tx[p].closed # NULL
                          THEN SetEnd(assignment, tx[p].closed, RoutersPrevEnd(tx[p].st))
                          ELSE assignment,
                          new_id,
                          AssignmentRow(tx[p].sid, tx[p].rid, tx[p].lid, tx[p].st, tx[p].en, 0))

(* the ledger holds one open-ended assignment from day 1 when the requests  *)
(* arrive                                                                   *)
InitConc ==
    /\ role = SeedRoles
    /\ location = SeedLocations
    /\ staff = [i \in 1..(MaxStaff - 1) |->
                  StaffRowNamed("Jane", "Doe", "Jane Doe", Mobile(i), None, 1, NULL, "ACTIVE")]
    /\ assignment = (HistoryId :> AssignmentRow(1, "RIDER", None, 1, NULL, 0))
    /\ today = 1
    /\ resp = Response("none", 0)
    /\ tx = [p \in Procs |-> NoTx]
    /\ device = <<>>

DoTxSelect ==
    \E p \in Procs, sid \in KnownStaff, rc \in SeedRoles, lc \in FormLocInputs, st \in Dates :
        TxSelect(p, sid, rc, lc, st)

DoTxUpdate == \E p \in Procs : TxUpdate(p)

DoTxInsertCommit == \E p \in Procs : TxInsertCommit(p)

NextConc == DoTxSelect \/ DoTxUpdate \/ DoTxInsertCommit

SpecConc == InitConc /\ [][NextConc]_vars

-----------------------------------------------------------------------------
(* Claims about supersession on the write path *)

(* The single row the "current assignment" query of a handler can return,   *)
(* NULL when it can return none or more than one.                           *)
TheCurrent(rows) ==
    LET first == FirstByStartDesc(assignment, rows)
    IN  IF Cardinality(first) = 1 THEN CHOOSE c \in first : TRUE ELSE NULL

(* the current row c is open-ended and differs from the requested role/location *)
OpenAndDifferent(c, rid, lid) ==
    /\ c # NULL
    /\ assignment[c].effective_end = NULL
    /\ ~SameRoleLoc(assignment[c], rid, lid)

(* after the step, row c ends on e and a new row of sid starts on st *)
Superseded(c, sid, e, st) ==
    /\ assignment'[c].effective_end = e
    /\ \E n \in DOMAIN assignment' \ DOMAIN assignment :
          /\ assignment'[n].staff_id = sid
          /\ assignment'[n].effective_start = st

(* the step is a call of routers/admin.py admin_add_assignment, or a JSON   *)
(* staff update that reaches _upsert_current_assignment, with start st      *)
RoutersAssignStep(sid, rc, lc, st) ==
    \/ /\ resp'.op = "routers_admin_add_assignment"
       /\ \E en \in EndInputs, hx \in HxInputs :
             RoutersAdminAddAssignment(sid, rc, lc, st, en, hx)
    \/ /\ resp'.op = "admin_staff_update_json"
       /\ st = today
       /\ RoutersAdminStaffUpdateJson(sid, None, None, None, None, None, rc, lc)

MainAssignStep(sid, rc, lc, st) ==
    /\ resp'.op = "main_admin_add_assignment"
    /\ \E en \in EndInputs, hx \in HxInputs :
          MainAdminAddAssignment(sid, rc, lc, st, en, hx)

(* C1, as stated: whenever an assign call with effective_start = S finds a  *)
(* current assignment that is open-ended and has another role or location,  *)
(* it leaves that assignment with effective_end = S and creates a new       *)
(* assignment with effective_start = S; this for every assign handler.      *)
C1_NoGapEveryVariant ==
    [][\A sid \in KnownStaff, rc \in SeedRoles, lc \in FormLocInputs, st \in Dates :
          /\ LET c == TheCurrent(RoutersCurrentRows(assignment, sid, st))
             IN  OpenAndDifferent(c, rc, AdminLocId(location, lc))
                   /\ RoutersAssignStep(sid, rc, lc, st)
                 => Superseded(c, sid, st, st)
          /\ LET c == TheCurrent(MainCurrentRows(assignment, sid, st))
             IN  OpenAndDifferent(c, rc, AdminLocId(location, lc))
                   /\ MainAssignStep(sid, rc, lc, st)
                 => Superseded(c, sid, st, st)
      ]_vars

(* C1, amended: the handlers of routers/admin.py leave the prior assignment *)
(* with effective_end = S (half-open: no gap, no overlap); admin_add_       *)
(* assignment of main.py leaves it with effective_end = S - 1 day (closed   *)
(* interval: no gap, no overlap); both create the new row with              *)
(* effective_start = S.                                                     *)
C1_NoGapPerVariant ==
    [][\A sid \in KnownStaff, rc \in SeedRoles, lc \in FormLocInputs, st \in Dates :
          /\ LET c == TheCurrent(RoutersCurrentRows(assignment, sid, st))
             IN  OpenAndDifferent(c, rc, AdminLocId(location, lc))
                   /\ RoutersAssignStep(sid, rc, lc, st)
                 => Superseded(c, sid, st, st)
          /\ LET c == TheCurrent(MainCurrentRows(assignment, sid, st))
             IN  OpenAndDifferent(c, rc, AdminLocId(location, lc))
                   /\ MainAssignStep(sid, rc, lc, st)
                 => Superseded(c, sid, st - 1, st)
      ]_vars

(* a routers/admin.py assign has closed a row exactly where an open-ended   *)
(* row of another role or location of the same staff member starts          *)
C1_Witness ==
    /\ resp.op = "routers_admin_add_assignment"
    /\ \E a, b \in DOMAIN assignment :
          /\ assignment[a].staff_id = assignment[b].staff_id
          /\ assignment[a].effective_start < assignment[b].effective_start
          /\ assignment[a].effective_end = assignment[b].effective_start
          /\ assignment[b].effective_end = NULL
          /\ ~SameRoleLoc(assignment[a], assignment[b].role_id, assignment[b].location_id)

(* an assignment row as the ledger's own convention reads it: from          *)
(* effective_start up to, not including, effective_end                      *)
EffectiveOn(row, D) ==
    row.effective_start <= D /\ (row.effective_end = NULL \/ D < row.effective_end)

(* C2: after any sequence of assign calls no staff member has two           *)
(* assignments that are both effective on one reference date.               *)
C2_SingleCurrent ==
    \A i, j \in DOMAIN assignment :
        (i # j /\ assignment[i].staff_id = assignment[j].staff_id)
        => \A D \in Dates : ~(EffectiveOn(assignment[i], D) /\ EffectiveOn(assignment[j], D))

(* the requested role/location as the listing shows it *)
RequestedColumns(rc, lc) ==
    [role_code |-> rc, location_code |-> AdminLocId(location, lc)]

(* after the step both listing queries show columns before on the day       *)
(* before st and the requested role/location on st                          *)
ListingSwitchesAt(sid, st, before, rc, lc) ==
    /\ ListColumns(assignment', MainResolved(assignment', sid, st - 1)) = before
    /\ ListColumns(assignment', MainResolved(assignment', sid, st)) = RequestedColumns(rc, lc)
    /\ ListColumns(assignment', ServicesResolved(assignment', sid, st - 1)) = before
    /\ ListColumns(assignment', ServicesResolved(assignment', sid, st)) = RequestedColumns(rc, lc)

(* the step is an assign call of routers/admin.py without effective_end *)
RoutersOpenEndedStep(sid, rc, lc, st) ==
    \/ /\ resp'.op = "routers_admin_add_assignment"
       /\ \E hx \in HxInputs : RoutersAdminAddAssignment(sid, rc, lc, st, NULL, hx)
    \/ /\ resp'.op = "admin_staff_update_json"
       /\ st = today
       /\ RoutersAdminStaffUpdateJson(sid, None, None, None, None, None, rc, lc)

(* the step is a call of main.py admin_add_assignment without effective_end *)
MainOpenEndedStep(sid, rc, lc, st) ==
    /\ resp'.op = "main_admin_add_assignment"
    /\ \E hx \in HxInputs : MainAdminAddAssignment(sid, rc, lc, st, NULL, hx)

(* C4: when an assign call with effective_start = S supersedes an           *)
(* open-ended assignment A that started before S by an assignment B, the    *)
(* staff listing resolves the staff member to A's role/location on S - 1    *)
(* and to B's on S.                                                         *)
C4_ListingAroundSupersession ==
    [][\A sid \in KnownStaff, rc \in SeedRoles, lc \in FormLocInputs, st \in Dates :
          /\ LET c == TheCurrent(RoutersCurrentRows(assignment, sid, st))
             IN  /\ OpenAndDifferent(c, rc, AdminLocId(location, lc))
                 /\ assignment[c].effective_start < st
                 /\ RoutersOpenEndedStep(sid, rc, lc, st)
                 => ListingSwitchesAt(sid, st, ListColumns(assignment, c), rc, lc)
          /\ LET c == TheCurrent(MainCurrentRows(assignment, sid, st))
             IN  /\ OpenAndDifferent(c, rc, AdminLocId(location, lc))
                 /\ assignment[c].effective_start < st
                 /\ MainOpenEndedStep(sid, rc, lc, st)
                 => ListingSwitchesAt(sid, st, ListColumns(assignment, c), rc, lc)
      ]_vars

(* the step is an assign call without effective_end, by any of the handlers *)
OpenEndedAssignStep(sid, rc, lc, st, p) ==
    \/ p = 0 /\ RoutersOpenEndedStep(sid, rc, lc, st)
    \/ p = 0 /\ MainOpenEndedStep(sid, rc, lc, st)
    \/ /\ resp'.op = "add_role_assignment"
       /\ MainAddRoleAssignment(sid, rc, lc, st, NULL, p)

(* the ledger tbl holds for sid exactly the one row an assign call without  *)
(* effective_end creates                                                    *)
OnlyRowIs(tbl, sid, rc, lc, st, p) ==
    \E i \in DOMAIN tbl :
        /\ RowsOf(tbl, sid) = {i}
        /\ tbl[i] = AssignmentRow(sid, rc, AdminLocId(location, lc), st, NULL, p)

-----------------------------------------------------------------------------
(* Claims about the resolver of the staff listing *)

(* the rows of sid that are in effect on D, as the listing defines it *)
Matching(sid, D) == {i \in RowsOf(assignment, sid) : MatchesDay(assignment[i], D)}

(* the first of rows under (priority desc, effective_start desc, id desc) *)
Best(rows) == CHOOSE i \in rows : \A j \in rows \ {i} : ListBefore(assignment, i, j)

(* C6: when several assignments of a staff member match a date, each        *)
(* listing query resolves to the one that is first under (priority desc,    *)
(* effective_start desc, id desc).                                          *)
C6_TieBreak ==
    \A sid \in KnownStaff, D \in Dates :
        Cardinality(Matching(sid, D)) >= 2
        => /\ MainResolved(assignment, sid, D) = Best(Matching(sid, D))
           /\ ServicesResolved(assignment, sid, D) = Best(Matching(sid, D))

(* C7: each listing query resolves a staff member on a date only to an      *)
(* assignment with effective_start <= date and (effective_end null or date  *)
(* <= effective_end), and to null role/location when there is none.         *)
C7_DateFilter ==
    \A sid \in KnownStaff, D \in Dates :
        /\ MainResolved(assignment, sid, D) \in Matching(sid, D) \cup {NULL}
        /\ ServicesResolved(assignment, sid, D) \in Matching(sid, D) \cup {NULL}
        /\ Matching(sid, D) = {}
           => /\ ListColumns(assignment, MainResolved(assignment, sid, D))
                   = [role_code |-> None, location_code |-> None]
              /\ ListColumns(assignment, ServicesResolved(assignment, sid, D))
                   = [role_code |-> None, location_code |-> None]

-----------------------------------------------------------------------------
(* Claim about concurrent assign calls *)

(* C3: two concurrent assign calls for one staff member with different      *)
(* roles and the same effective_start leave one of the two rows open-ended  *)
(* and the other closed at that date or refused: the ledger never holds two *)
(* open-ended rows of different roles with one effective_start for a staff  *)
(* member.                                                                  *)
C3_OneSupersession ==
    \A i, j \in DOMAIN assignment :
        (/\ i # j
         /\ assignment[i].staff_id = assignment[j].staff_id
         /\ assignment[i].effective_start = assignment[j].effective_start
         /\ assignment[i].role_id # assignment[j].role_id)
        => ~(assignment[i].effective_end = NULL /\ assignment[j].effective_end = NULL)

-----------------------------------------------------------------------------
(* Claims about staff records *)

(* the step is a create call with this mobile, by any of the three handlers *)
CreateStep(m) ==
    \/ /\ resp'.op = "create_staff"
       /\ \E rc \in StaffRoleInputs : MainCreateStaff("Jane", "Doe", m, today, None, rc, "CRANBOURNE")
    \/ /\ resp'.op = "admin_staff_create_json"
       /\ \E rc \in StaffRoleInputs :
             RoutersAdminStaffCreateJson("Jane", "Doe", m, None, TRUE, rc, None)
    \/ /\ resp'.op = "api_staff_create"
       /\ ApiStaffCreate("Jane", "Doe", m, None, TRUE)

(* a staff row holds the mobile m *)
MobileKnown(m) == \E i \in DOMAIN staff : staff[i].mobile = m

UpdateStep(sid, m) ==
    \/ /\ resp'.op = "admin_staff_update_json"
       /\ RoutersAdminStaffUpdateJson(sid, None, None, m, None, None, None, None)
    \/ /\ resp'.op = "api_staff_update"
       /\ ApiStaffUpdate(sid, None, None, m, None, None)
    \/ /\ resp'.op = "admin_staff_update"
       /\ MainAdminStaffUpdate(sid, "Jane", "Doe", m, "", 1, NULL)

(* C9: an update fails with NotFound (404) when the id is absent and with   *)
(* DuplicateContact (a 4xx client error) when the new mobile is that of     *)
(* another record, the rows unchanged in both cases; mobiles stay unique.   *)
C9_UpdateErrors ==
    [][\A sid \in StaffIds, m \in {x \in MobileInputs : Strip(x) = x} :
          UpdateStep(sid, m)
          => /\ sid \notin DOMAIN staff
                => resp'.status = 404 /\ staff' = staff
             /\ (sid \in DOMAIN staff /\ StaffWithMobile(staff, m) \ {sid} # {})
                => resp'.status \in {400, 409} /\ staff' = staff
             /\ MobileUnique(staff')
      ]_vars

-----------------------------------------------------------------------------
(* Claims about ending an assignment *)

(* the assignment aid exists and belongs to staff member sid *)
FoundFor(sid, aid) == aid \in DOMAIN assignment /\ assignment[aid].staff_id = sid

(* the step sets effective_end of aid to d and changes nothing else *)
EndsOn(aid, d) == assignment' = [assignment EXCEPT ![aid].effective_end = d]

(* the end date admin_end_assignment uses for the form field end_date *)
FormEndDate(end_date) == IF end_date = NULL THEN today ELSE end_date

-----------------------------------------------------------------------------
(* Handlers that end, reactivate and delete staff *)

(* main.py end_staff (POST /staff/{staff_id}/end) *)
MainEndStaff(sid, end_date) ==
    LET op == "end_staff"
    IN  /\ UNCHANGED <<role, location, assignment, today, tx, device>>
        /\ IF sid \notin DOMAIN staff
           THEN resp' = Response(op, 404) /\ UNCHANGED staff
           ELSE /\ resp' = Response(op, 200)
                /\ staff' = [staff EXCEPT ![sid].end_date = end_date]

(* main.py reactivate_staff (POST /staff/{staff_id}/reactivate) *)
MainReactivateStaff(sid) ==
    LET op == "reactivate_staff"
    IN  /\ UNCHANGED <<role, location, assignment, today, tx, device>>
        /\ IF sid \notin DOMAIN staff
           THEN resp' = Response(op, 404) /\ UNCHANGED staff
           ELSE /\ resp' = Response(op, 200)
                /\ staff' = [staff EXCEPT ![sid].end_date = NULL]

(* main.py admin_end_staff (POST /admin/staff/{staff_id}/end): end_date is  *)
(* the form field, today when it is blank; both UPDATEs match no row when   *)
(* the id is in no staff row, and the handler redirects all the same.       *)
MainAdminEndStaff(sid, end_date) ==
    LET d == IF end_date = NULL THEN today ELSE end_date
    IN  /\ UNCHANGED <<role, location, today, tx, device>>
        /\ resp' = Response("main_admin_end_staff", 303)
        /\ staff' = IF sid \in DOMAIN staff
                    THEN [staff EXCEPT ![sid].end_date = d] ELSE staff
        /\ assignment' = CloseAllOn(assignment, sid, d)

(* main.py admin_reactivate_staff *)
MainAdminReactivateStaff(sid) ==
    /\ UNCHANGED <<role, location, assignment, today, tx, device>>
    /\ resp' = Response("main_admin_reactivate_staff", 303)
    /\ staff' = IF sid \in DOMAIN staff
                THEN [staff EXCEPT ![sid].end_date = NULL] ELSE staff

(* a variant of the handler below that leaves the status column alone *)
RoutersAdminEndStaffDateOnly(sid, end_date) ==
    LET d == IF end_date = NULL THEN today ELSE end_date
    IN  /\ UNCHANGED <<role, location, today, tx, device>>
        /\ resp' = Response("routers_admin_end_staff", 303)
        /\ staff' = IF sid \in DOMAIN staff
                    THEN [staff EXCEPT ![sid].end_date = d] ELSE staff
        /\ assignment' = CloseAllOn(assignment, sid, d)

(* routers/admin.py admin_end_staff: as main.py's, and status = 'INACTIVE' *)
RoutersAdminEndStaff(sid, end_date) ==
    LET d == IF end_date = NULL THEN today ELSE end_date
    IN  /\ UNCHANGED <<role, location, today, tx, device>>
        /\ resp' = Response("routers_admin_end_staff", 303)
        /\ staff' = IF sid \in DOMAIN staff
                    THEN [staff EXCEPT ![sid].end_date = d, ![sid].status = "INACTIVE"]
                    ELSE staff
        /\ assignment' = CloseAllOn(assignment, sid, d)

(* a variant of the handler below that also reopens the rows of the staff   *)
(* member that end on the staff end_date                                    *)
RoutersAdminReactivateReopening(sid) ==
    /\ UNCHANGED <<role, location, today, tx, device>>
    /\ resp' = Response("routers_admin_reactivate_staff", 303)
    /\ staff' = IF sid \in DOMAIN staff
                THEN [staff EXCEPT ![sid].end_date = NULL, ![sid].status = "ACTIVE"]
                ELSE staff
    /\ assignment' =
          [i \in DOMAIN assignment |->
              IF /\ sid \in DOMAIN staff
                 /\ assignment[i].staff_id = sid
                 /\ assignment[i].effective_end = staff[sid].end_date
              THEN [assignment[i] EXCEPT !.effective_end = NULL]
              ELSE assignment[i]]

(* routers/admin.py admin_reactivate_staff: end_date = NULL, status = 'ACTIVE' *)
RoutersAdminReactivateStaff(sid) ==
    /\ UNCHANGED <<role, location, assignment, today, tx, device>>
    /\ resp' = Response("routers_admin_reactivate_staff", 303)
    /\ staff' = IF sid \in DOMAIN staff
                THEN [staff EXCEPT ![sid].end_date = NULL, ![sid].status = "ACTIVE"]
                ELSE staff

(* a table without the row id *)
Remove(tbl, id) == [i \in DOMAIN tbl \ {id} |-> tbl[i]]

(* a DELETE that leaves the rows that reference the staff row in place *)
NoCascade(tbl, sid) == tbl

(* staff_id UUID NOT NULL REFERENCES staff(id) ON DELETE CASCADE: what the  *)
(* DELETE of staff row sid leaves of the ledger                             *)
Cascade(tbl, sid) == [i \in {k \in DOMAIN tbl : tbl[k].staff_id # sid} |-> tbl[i]]

(* routers/admin.py admin_staff_delete_json (DELETE /admin/staff/{id}) *)
RoutersAdminStaffDeleteJson(sid) ==
    LET op == "admin_staff_delete_json"
    IN  /\ UNCHANGED <<role, location, today, tx>>
        /\ IF sid \notin DOMAIN staff
           THEN resp' = Response(op, 404) /\ UNCHANGED <<staff, assignment, device>>
           ELSE /\ resp' = Response(op, 200)
                /\ staff' = Remove(staff, sid)
                /\ assignment' = Cascade(assignment, sid)
                /\ device' = Cascade(device, sid)

(* routers/api_staff.py api_staff_delete (DELETE /api/staff/{id}) *)
ApiStaffDelete(sid) ==
    LET op == "api_staff_delete"
    IN  /\ UNCHANGED <<role, location, today, tx>>
        /\ IF sid \notin DOMAIN staff
           THEN resp' = Response(op, 404) /\ UNCHANGED <<staff, assignment, device>>
           ELSE /\ resp' = Response(op, 200)
                /\ staff' = Remove(staff, sid)
                /\ assignment' = Cascade(assignment, sid)
                /\ device' = Cascade(device, sid)

-----------------------------------------------------------------------------
(* The life of a staff record: created with a start date, given open-ended  *)
(* assignments, ended, reactivated, updated and deleted.                    *)

LifeMobiles == {"042"}

DoLifeCreate ==
    \E m \in LifeMobiles, sd \in Dates :
        MainCreateStaff("Jane", "Doe", m, sd, None, None, None)

DoLifeAssign ==
    \E sid \in StaffIds :
        RoutersAdminAddAssignment(sid, "RIDER", "", today, NULL, FALSE)

DoLifeSetActive ==
    \E sid \in StaffIds, active \in {"true", "false"} :
        RoutersAdminStaffUpdateJson(sid, None, None, None, None, active, None, None)

DoMainEndStaff == \E sid \in StaffIds, d \in Dates : MainEndStaff(sid, d)

DoMainReactivateStaff == \E sid \in StaffIds : MainReactivateStaff(sid)

DoMainAdminEndStaff == \E sid \in StaffIds, d \in EndInputs : MainAdminEndStaff(sid, d)

DoMainAdminReactivateStaff == \E sid \in StaffIds : MainAdminReactivateStaff(sid)

DoRoutersAdminEndStaff == \E sid \in StaffIds, d \in EndInputs : RoutersAdminEndStaff(sid, d)

DoRoutersAdminReactivateStaff == \E sid \in StaffIds : RoutersAdminReactivateStaff(sid)

DoRoutersAdminStaffDeleteJson == \E sid \in StaffIds : RoutersAdminStaffDeleteJson(sid)

DoApiStaffDelete == \E sid \in StaffIds : ApiStaffDelete(sid)

NextLife ==
    \/ DoLifeCreate
    \/ DoLifeAssign
    \/ DoLifeSetActive
    \/ DoMainEndStaff
    \/ DoMainReactivateStaff
    \/ DoMainAdminEndStaff
    \/ DoMainAdminReactivateStaff
    \/ DoRoutersAdminEndStaff
    \/ DoRoutersAdminReactivateStaff
    \/ DoRoutersAdminStaffDeleteJson
    \/ DoApiStaffDelete

SpecLife == Init /\ [][NextLife]_vars

-----------------------------------------------------------------------------
(* Every kind of operation that touches the ledger of an existing staff     *)
(* member: assign, end an assignment, update the staff record, end and      *)
(* reactivate the staff member, while the calendar day advances.            *)

FrameActive == {None, "true", "false"}
FrameRoles == {None, "STRAPPER"}

DoFrameAssign ==
    \E sid \in KnownStaff, rc \in SeedRoles, st \in Dates :
        RoutersAdminAddAssignment(sid, rc, "", st, NULL, FALSE)

DoFrameUpdate ==
    \E sid \in KnownStaff, active \in FrameActive, rc \in FrameRoles :
        RoutersAdminStaffUpdateJson(sid, None, None, None, None, active, rc, None)

NextFrame ==
    \/ DoFrameAssign
    \/ DoMainEndRoleAssignment
    \/ DoFrameUpdate
    \/ DoRoutersAdminEndStaff
    \/ DoRoutersAdminReactivateStaff
    \/ Tick

SpecFrame == Init /\ [][NextFrame]_vars

-----------------------------------------------------------------------------
(* Assign calls whose role or location code may be in no lookup row *)

UnknownRole == "BOGUS"
UnknownLocation == "NOWHERE"
RefRoles == SeedRoles \cup {UnknownRole}
RefLocs == {"", DASH, "CRANBOURNE", UnknownLocation}

DoRefsRoutersAssign ==
    \E sid \in KnownStaff, rc \in RefRoles, lc \in RefLocs, st \in Dates, hx \in BOOLEAN :
        RoutersAdminAddAssignment(sid, rc, lc, st, NULL, hx)

DoRefsMainAssign ==
    \E sid \in KnownStaff, rc \in RefRoles, lc \in RefLocs, st \in Dates, hx \in BOOLEAN :
        MainAdminAddAssignment(sid, rc, lc, st, NULL, hx)

DoRefsApiAssign ==
    \E sid \in KnownStaff, rc \in RefRoles, lc \in RefLocs, st \in Dates :
        MainAddRoleAssignment(sid, rc, lc, st, NULL, 0)

DoRefsUpdateRole ==
    \E sid \in KnownStaff, rc \in RefRoles, lc \in RefLocs :
        RoutersAdminStaffUpdateJson(sid, None, None, None, None, None, rc, lc)

NextRefs ==
    \/ DoRefsRoutersAssign
    \/ DoRefsMainAssign
    \/ DoRefsApiAssign
    \/ DoRefsUpdateRole

SpecRefs == Init /\ [][NextRefs]_vars

-----------------------------------------------------------------------------
(* The stores the staff listing is read from: staff records with a start    *)
(* date, ended on a date, with open-ended assignments of either role.       *)

DoListCreate ==
    \E sd \in Dates : MainCreateStaff("Zoe", "Doe", "042", sd, None, None, None)

DoListAssign ==
    \E sid \in StaffIds, rc \in SeedRoles, st \in Dates :
        RoutersAdminAddAssignment(sid, rc, "", st, NULL, FALSE)

NextList ==
    \/ DoListCreate
    \/ DoListAssign
    \/ DoMainEndStaff

SpecList == Init /\ [][NextList]_vars

-----------------------------------------------------------------------------
(* Device registration *)

DeviceIds == 1..MaxRows
Tokens == {"tokenA", "tokenB"}
PlatformInputs == {"iOS", " Android", "Symbian"}

DeviceRow(sid, pf, tk, now) ==
    [staff_id |-> sid, platform |-> pf, token |-> tk, last_seen_at |-> now]

(* a variant of the statement below without the ON CONFLICT clause *)
InsertDevice(tbl, sid, pf, tk, now) ==
    {Insert(tbl, id, DeviceRow(sid, pf, tk, now)) : id \in FreeIds(tbl, DeviceIds)}

(* INSERT INTO device (staff_id, platform, token) VALUES (:sid, :pf, :tk)   *)
(* ON CONFLICT (token) DO UPDATE SET staff_id, platform, last_seen_at=now(): *)
(* the tables it can leave                                                   *)
UpsertDevice(tbl, sid, pf, tk, now) ==
    IF \E i \in DOMAIN tbl : tbl[i].token = tk
    THEN {[i \in DOMAIN tbl |->
             IF tbl[i].token = tk
             THEN [tbl[i] EXCEPT !.staff_id = sid, !.platform = pf, !.last_seen_at = now]
             ELSE tbl[i]]}
    ELSE {Insert(tbl, id, DeviceRow(sid, pf, tk, now)) : id \in FreeIds(tbl, DeviceIds)}

(* main.py register_device (POST /devices).  DeviceCreate strips the        *)
(* platform and refuses (422) one that is not iOS or Android.               *)
RegisterDevice(sid, platform, token) ==
    LET op == "register_device"
        v2 == Strip(platform)
    IN  /\ UNCHANGED <<role, location, staff, assignment, today, tx>>
        /\ IF v2 \notin {"iOS", "Android"}
           THEN resp' = Response(op, 422) /\ UNCHANGED device
           ELSE IF sid \notin DOMAIN staff
           THEN resp' = Response(op, 404) /\ UNCHANGED device
           ELSE /\ resp' = Response(op, 201)
                /\ \E upserted \in UpsertDevice(device, sid, v2, token, today) :
                      device' = upserted

DoRegisterDevice ==
    \E sid \in StaffIds, pf \in PlatformInputs, tk \in Tokens : RegisterDevice(sid, pf, tk)

NextDevice ==
    \/ DoRegisterDevice
    \/ DoLifeCreate
    \/ DoApiStaffDelete
    \/ Tick

SpecDevice == Init /\ [][NextDevice]_vars

-----------------------------------------------------------------------------
(* Staff members taken off and put back: open-ended assignments from any    *)
(* day, the two admin end forms and the two admin reactivate forms          *)

DoOffAssign ==
    \E sid \in StaffIds, st \in Dates :
        RoutersAdminAddAssignment(sid, "RIDER", "", st, NULL, FALSE)

DoOffCreate ==
    \E m \in LifeMobiles : MainCreateStaff("Jane", "Doe", m, 1, None, None, None)

NextOff ==
    \/ DoOffAssign
    \/ DoOffCreate
    \/ DoMainAdminEndStaff
    \/ DoRoutersAdminEndStaff
    \/ DoMainAdminReactivateStaff
    \/ DoRoutersAdminReactivateStaff

SpecOff == Init /\ [][NextOff]_vars

-----------------------------------------------------------------------------
(* Staff created with an initial role whose codes may not resolve *)

CreateMobiles == {"041", "042"}
CreateRoles == {None, "RIDER", UnknownRole}
CreateLocs == {None, "CRANBOURNE", UnknownLocation}

DoCreateWithRole ==
    \E m \in CreateMobiles, sd \in Dates, rc \in CreateRoles, lc \in CreateLocs :
        MainCreateStaff("Jane", "Doe", m, sd, None, rc, lc)

NextCreate ==
    \/ DoCreateWithRole
    \/ DoApiStaffDelete

SpecCreate == InitStaff /\ [][NextCreate]_vars

-----------------------------------------------------------------------------
(* The staff table under the handlers of routers/admin.py that write the    *)
(* status column: JSON create, JSON update, end staff and reactivate        *)

DoStatusCreate ==
    \E m \in LifeMobiles, is_active \in BOOLEAN :
        RoutersAdminStaffCreateJson("Jane", "Doe", m, None, is_active, None, None)

NextStatus ==
    \/ DoStatusCreate
    \/ DoLifeSetActive
    \/ DoRoutersAdminEndStaff
    \/ DoRoutersAdminReactivateStaff
    \/ Tick

SpecStatus == Init /\ [][NextStatus]_vars

-----------------------------------------------------------------------------
(* Schema bootstrap of app/core/db.py *)

(* INSERT INTO role (code, label) VALUES ... ON CONFLICT (code) DO UPDATE *)
BootRoles == {"RIDER", "STRAPPER", "MEDIA", "TREADMILL", "WATERWALKERS", "FARRIER", "VET"}

(* INSERT INTO location (code, name, timezone) VALUES ... ON CONFLICT DO UPDATE *)
BootLocations == {"FARM", "FLEMINGTON", "PAKENHAM"}

(* ALLOWED_ROLES and ALLOWED_LOCS of app/core/constants.py: the values the  *)
(* two lists may have; a run of bootstrap_schema uses one of each           *)
AllowedRoleSets == {BootRoles, {"RIDER", "TRACKWORK"}, {}}
AllowedLocSets == {BootLocations, {"CRANBOURNE"}, {}}

(* the role_id or location_id values some assignment row holds *)
Referenced(tbl, col) == {tbl[i][col] : i \in DOMAIN tbl} \ {None}

(* a variant of the DELETE below without its NOT EXISTS clause *)
PruneReferencedToo(codes, allowed, referenced) == codes \cap allowed

(* DELETE FROM role r WHERE r.code NOT IN (allowed) AND NOT EXISTS (SELECT 1 *)
(* FROM staff_role_assignment a WHERE a.role_id = r.id): the codes that stay *)
Prune(codes, allowed, referenced) ==
    {c \in codes : c \in allowed \/ c \in referenced}

(* CREATE TABLE / INDEX IF NOT EXISTS leave the existing tables alone; the   *)
(* seeds are upserted by code, then the codes outside the allowed lists     *)
(* that no assignment references are deleted; one transaction               *)
bootstrap_schema(allowed_roles, allowed_locs) ==
    /\ role' = Prune(role \cup BootRoles, allowed_roles, Referenced(assignment, "role_id"))
    /\ location' = Prune(location \cup BootLocations, allowed_locs,
                         Referenced(assignment, "location_id"))
    /\ resp' = Response("bootstrap_schema", 0)
    /\ UNCHANGED <<staff, assignment, today, tx, device>>

(* the tables as _bootstrap_schema of main.py seeds them *)
InitBoot ==
    /\ role = {"RIDER", "STRAPPER", "TRACKWORK"}
    /\ location = {"CRANBOURNE", "FLEMINGTON"}
    /\ staff = [i \in 1..(MaxStaff - 1) |->
                  [given_name |-> "Jane", family_name |-> "Doe", display_name |-> "Jane Doe",
                   mobile |-> Mobile(i), email |-> None, start_date |-> 1,
                   end_date |-> NULL, status |-> "ACTIVE"]]
    /\ assignment = <<>>
    /\ today = 1
    /\ resp = Response("none", 0)
    /\ tx = [p \in Procs |-> NoTx]
    /\ device = <<>>

DoBootstrapSchema ==
    \E allowed_roles \in AllowedRoleSets, allowed_locs \in AllowedLocSets :
        bootstrap_schema(allowed_roles, allowed_locs)

DoBootAssign ==
    \E sid \in KnownStaff, rc \in {"TRACKWORK", "MEDIA"}, lc \in {"", "CRANBOURNE"} :
        RoutersAdminAddAssignment(sid, rc, lc, today, NULL, FALSE)

NextBoot ==
    \/ DoBootstrapSchema
    \/ DoBootAssign
    \/ DoApiStaffDelete
    \/ Tick

SpecBoot == InitBoot /\ [][NextBoot]_vars

-----------------------------------------------------------------------------
(* Claims about the invariants of the ledger and of the staff table *)

(* C11: every assignment whose effective_end is not null has               *)
(* effective_end >= effective_start.                                        *)
C11_IntervalInvariant ==
    \A i \in DOMAIN assignment :
        assignment[i].effective_end # NULL
        => assignment[i].effective_end >= assignment[i].effective_start

(* C12: after any sequence of create, end and reactivate operations every   *)
(* staff record whose end_date is not null has end_date >= start_date.      *)
C12_StaffDateInvariant ==
    \A sid \in DOMAIN staff :
        staff[sid].end_date # NULL => staff[sid].end_date >= staff[sid].start_date

(* what an assignment row is apart from its effective_end *)
Immutable(row) == [row EXCEPT !.effective_end = NULL]

(* C13: no operation changes the staff reference, role, location,           *)
(* effective_start or priority of an assignment row that already exists;    *)
(* effective_end is the only field of an existing row that a step modifies. *)
C13_OnlyEffectiveEndMutable ==
    [][\A i \in DOMAIN assignment \cap DOMAIN assignment' :
          Immutable(assignment'[i]) = Immutable(assignment[i])]_vars

(* a staff update with active = false has closed a row of a ledger that     *)
(* holds a superseded row as well                                           *)
C13_Witness ==
    /\ resp.op = "admin_staff_update_json"
    /\ resp.status = 200
    /\ Cardinality(DOMAIN assignment) = MaxRows
    /\ \A i \in DOMAIN assignment : assignment[i].effective_end # NULL
    /\ \E i \in DOMAIN assignment : assignment[i].effective_end = today

(* every assignment row references a staff row *)
Referential == \A i \in DOMAIN assignment : assignment[i].staff_id \in DOMAIN staff

(* a step removes an assignment row only together with its staff row, and   *)
(* a step that removes a staff row leaves none of its assignment rows       *)
RemovedOnlyByCascade ==
    /\ \A i \in DOMAIN assignment \ DOMAIN assignment' :
          /\ assignment[i].staff_id \in DOMAIN staff \ DOMAIN staff'
          /\ resp'.op \in {"admin_staff_delete_json", "api_staff_delete"}
    /\ \A sid \in DOMAIN staff \ DOMAIN staff' :
          /\ RowsOf(assignment, sid) \cap DOMAIN assignment' = {}
          /\ RowsOf(assignment', sid) = {}

(* C14: assignment rows are removed only by deleting their staff record,    *)
(* deleting a staff record removes all of its assignments, and in every     *)
(* reachable state every assignment references an existing staff record.    *)
C14_RemovedOnlyByCascade == []Referential /\ [][RemovedOnlyByCascade]_vars

(* a delete has answered 200 and has left the rows of the other staff       *)
(* member in the ledger                                                     *)
C14_Witness ==
    /\ resp.op \in {"admin_staff_delete_json", "api_staff_delete"}
    /\ resp.status = 200
    /\ Cardinality(DOMAIN staff) = MaxStaff - 1
    /\ assignment # <<>>
    /\ Cardinality(DOMAIN assignment) < MaxRows

-----------------------------------------------------------------------------
(* Claims about role and location codes that do not resolve *)

(* a code that is neither blank, nor the placeholder, nor in the lookup set *)
LocUnknown(lc) == Strip(lc) \notin {"", DASH} /\ Strip(lc) \notin location

LocBlank(lc) == Strip(lc) \in {"", DASH}

(* the step is an assign call without effective_end, by one of the four     *)
(* handlers that assign                                                     *)
RefsRoutersStep(sid, rc, lc, st) ==
    /\ resp'.op = "routers_admin_add_assignment"
    /\ \E hx \in BOOLEAN : RoutersAdminAddAssignment(sid, rc, lc, st, NULL, hx)

RefsMainStep(sid, rc, lc, st, hx) ==
    /\ resp'.op = "main_admin_add_assignment"
    /\ MainAdminAddAssignment(sid, rc, lc, st, NULL, hx)

RefsApiStep(sid, rc, lc, st) ==
    /\ resp'.op = "add_role_assignment"
    /\ MainAddRoleAssignment(sid, rc, lc, st, NULL, 0)

RefsUpdateStep(sid, rc, lc, st) ==
    /\ resp'.op = "admin_staff_update_json"
    /\ st = today
    /\ RoutersAdminStaffUpdateJson(sid, None, None, None, None, None, rc, lc)

RefsAssignStep(sid, rc, lc, st) ==
    \/ RefsRoutersStep(sid, rc, lc, st)
    \/ \E hx \in BOOLEAN : RefsMainStep(sid, rc, lc, st, hx)
    \/ RefsApiStep(sid, rc, lc, st)
    \/ RefsUpdateStep(sid, rc, lc, st)

NewRows == DOMAIN assignment' \ DOMAIN assignment

(* C15: an assign call with a non-blank location code that is not in the    *)
(* location lookup set fails (UnknownReference) and neither closes nor      *)
(* inserts an assignment; a blank or placeholder code is accepted and the   *)
(* row is stored without location.                                          *)
C15_UnknownLocationIsError ==
    [][\A sid \in KnownStaff, rc \in SeedRoles, lc \in RefLocs, st \in Dates :
          RefsAssignStep(sid, rc, lc, st)
          => /\ LocUnknown(lc) => resp'.status >= 400 /\ assignment' = assignment
             /\ LocBlank(lc) => /\ resp'.status # 400
                                /\ \A i \in NewRows : assignment'[i].location_id = None
      ]_vars

-----------------------------------------------------------------------------
(* Claims about the staff listing *)

(* the listing rows hold every staff record exactly once *)
EveryStaffOnce(rows) ==
    /\ \A r \in rows : r.id \in DOMAIN staff
    /\ \A sid \in DOMAIN staff : Cardinality({r \in rows : r.id = sid}) = 1

(* filtered is a part of all and every row of it has role code rf *)
SubsetWithRole(filtered, all, rf) ==
    /\ filtered \subseteq all
    /\ \A r \in filtered : ListColumns(assignment, r.aid).role_code = rf

(* C17: for every ledger state and date, the listing with no filters        *)
(* returns every staff record exactly once, also for a staff member with    *)
(* zero or several matching assignments, and with a role filter it returns  *)
(* a subset in which every row's resolved role code equals the filter.      *)
C17_ListingCompleteAndFiltered ==
    \A D \in Dates, rf \in SeedRoles :
        /\ EveryStaffOnce(MainFetchStaffForList(staff, assignment, D, None, None, None, None))
        /\ EveryStaffOnce(ServicesFetchStaffForList(staff, assignment, D, None, None, None, None))
        /\ SubsetWithRole(MainFetchStaffForList(staff, assignment, D, rf, None, None, None),
                          MainFetchStaffForList(staff, assignment, D, None, None, None, None), rf)
        /\ SubsetWithRole(ServicesFetchStaffForList(staff, assignment, D, rf, None, None, None),
                          ServicesFetchStaffForList(staff, assignment, D, None, None, None, None), rf)

(* one staff member has two assignments that match a day, the other has     *)
(* none, and the role filter keeps the first and drops the second           *)
C17_Witness ==
    \E D \in Dates, s1, s2 \in DOMAIN staff, rf \in SeedRoles :
        /\ Cardinality(MainListRows(assignment, s1, D)) = 2
        /\ RowsOf(assignment, s2) = {}
        /\ {r.id : r \in MainFetchStaffForList(staff, assignment, D, rf, None, None, None)} = {s1}
        /\ {r.id : r \in ServicesFetchStaffForList(staff, assignment, D, rf, None, None, None)} = {s1}

DayInputs == Dates \cup {NULL}
RoleFilters == {None} \cup SeedRoles
LocFilters == {None} \cup SeedLocations
StatusFilters == {None, "active", "inactive"}
QueryInputs == {None, "jane"}

(* every output of the one query equals every output of the other *)
SameIdsSameOrder(A, B) == \A x \in A, y \in B : x = y

(* C18: for the same store and the same parameters (date d, role,           *)
(* location, status, text query) the CSV export holds exactly the staff ids *)
(* of the JSON staff listing, in the same order.                            *)
C18_ExportEquivalence ==
    \A d \in DayInputs, rf \in RoleFilters, lf \in LocFilters :
        /\ \A sf \in StatusFilters, q \in QueryInputs :
              SameIdsSameOrder(
                  RoutersAdminStaffExportCsv(staff, assignment, today, d, rf, lf, sf, q),
                  RoutersAdminStaffListJson(staff, assignment, today, d, rf, lf, sf, q))
        /\ d # NULL
           => SameIdsSameOrder(
                  MainAdminStaffExportCsv(staff, assignment, today, d, rf, lf, None, None),
                  MainGetStaff(staff, assignment, d, rf, lf))

-----------------------------------------------------------------------------
(* Claims about ending and reactivating staff *)

(* the step is a reactivate call for sid, by any of the three handlers *)
ReactivateStep(sid) ==
    \/ resp'.op = "reactivate_staff" /\ MainReactivateStaff(sid)
    \/ resp'.op = "routers_admin_reactivate_staff" /\ RoutersAdminReactivateStaff(sid)
    \/ resp'.op = "main_admin_reactivate_staff" /\ MainAdminReactivateStaff(sid)

(* the step is an end call for sid with the date d, by any of the three handlers *)
EndStep(sid, d) ==
    \/ resp'.op = "end_staff" /\ MainEndStaff(sid, d)
    \/ resp'.op = "routers_admin_end_staff" /\ RoutersAdminEndStaff(sid, d)
    \/ resp'.op = "main_admin_end_staff" /\ MainAdminEndStaff(sid, d)

NotFoundNothingChanged ==
    resp'.status = 404 /\ staff' = staff /\ assignment' = assignment

(* C19: reactivate(id) leaves end_date null whatever it was, end(id, d)     *)
(* leaves end_date = d also for a d in the past; for an id that is in no    *)
(* staff row both report NotFound and change nothing.                       *)
C19_EndAndReactivate ==
    [][\A sid \in StaffIds :
          /\ ReactivateStep(sid)
             => IF sid \in DOMAIN staff
                THEN sid \in DOMAIN staff' /\ staff'[sid].end_date = NULL
                ELSE NotFoundNothingChanged
          /\ \A d \in Dates :
                EndStep(sid, d)
                => IF sid \in DOMAIN staff
                   THEN sid \in DOMAIN staff' /\ staff'[sid].end_date = d
                   ELSE NotFoundNothingChanged
      ]_vars

-----------------------------------------------------------------------------
(* Claim about the status column of the staff listing *)

(* start_date <= day and (end_date is null or day <= end_date) *)
IsActiveOn(row, day) ==
    row.start_date <= day /\ (row.end_date = NULL \/ day <= row.end_date)

(* C20: the staff listing reports a staff member as active on day exactly   *)
(* when start_date <= day and (end_date is null or day <= end_date), and as *)
(* inactive otherwise, whatever the staff member's assignments are.         *)
C20_StatusFormula ==
    \A day \in Dates :
        /\ \A r \in ServicesFetchStaffForList(staff, assignment, day, None, None, None, None) :
              ServicesIsActive(staff, assignment, r, day) <=> IsActiveOn(staff[r.id], day)
        /\ \A r \in MainFetchStaffForList(staff, assignment, day, None, None, None, None) :
              MainIsActive(staff, assignment, r, day) <=> IsActiveOn(staff[r.id], day)

-----------------------------------------------------------------------------
(* Claim about device registration *)

TokenUnique == \A i, j \in DOMAIN device : device[i].token = device[j].token => i = j

(* the step is a register_device call with a platform the payload accepts *)
RegisterStep(sid, pf, tk) ==
    /\ resp'.op = "register_device"
    /\ Strip(pf) \in {"iOS", "Android"}
    /\ RegisterDevice(sid, pf, tk)

(* a register step for an existing staff id leaves one row for the token,   *)
(* with that staff id and platform, and the other rows as they were; for an *)
(* id in no staff row it answers 404 and leaves the table as it was; no     *)
(* other step writes a device row                                           *)
RegisterEffect ==
    /\ \A sid \in StaffIds, pf \in PlatformInputs, tk \in Tokens :
          RegisterStep(sid, pf, tk)
          => IF sid \in DOMAIN staff
             THEN /\ resp'.status = 201
                  /\ \E i \in DOMAIN device' :
                        /\ \A j \in DOMAIN device' : device'[j].token = tk <=> j = i
                        /\ device'[i].staff_id = sid
                        /\ device'[i].platform = Strip(pf)
                        /\ \A j \in DOMAIN device' \ {i} :
                              j \in DOMAIN device /\ device'[j] = device[j]
             ELSE resp'.status = 404 /\ device' = device
    /\ resp'.op # "register_device"
       => \A i \in DOMAIN device' : i \in DOMAIN device /\ device'[i] = device[i]

(* C21: there is at most one device row per token, the row carries the      *)
(* staff id and platform of the most recent successful registration of the  *)
(* token, and a registration for a staff id that does not exist fails with  *)
(* NotFound and changes no device row.                                      *)
C21_DeviceUpsert == []TokenUnique /\ [][RegisterEffect]_vars

(* a token registered on an earlier day belongs to the staff member created *)
(* later, next to the row of another token                                  *)
C21_Witness ==
    /\ resp = Response("register_device", 201)
    /\ Cardinality(DOMAIN device) = 2
    /\ \E i, j \in DOMAIN device :
          /\ device[i].staff_id = MaxStaff
          /\ device[i].last_seen_at = today
          /\ device[j].last_seen_at < today
          /\ device[j].staff_id # MaxStaff

-----------------------------------------------------------------------------
(* Claims about the branches of assign *)

(* row c has the requested role and location *)
Identical(c, rc, lid) ==
    c # NULL /\ assignment[c].role_id = rc /\ assignment[c].location_id = lid

(* the step is an assign call of routers/admin.py with the end en *)
RoutersStepWithEnd(sid, rc, lc, st, en) ==
    \/ /\ resp'.op = "routers_admin_add_assignment"
       /\ \E hx \in HxInputs : RoutersAdminAddAssignment(sid, rc, lc, st, en, hx)
    \/ /\ resp'.op = "admin_staff_update_json"
       /\ st = today /\ en = NULL
       /\ RoutersAdminStaffUpdateJson(sid, None, None, None, None, None, rc, lc)

MainStepWithEnd(sid, rc, lc, st, en) ==
    /\ resp'.op = "main_admin_add_assignment"
    /\ \E hx \in HxInputs : MainAdminAddAssignment(sid, rc, lc, st, en, hx)

(* no row is inserted, no row but c changes, and c changes in its           *)
(* effective_end only, to en, when en is given and differs                  *)
IdentityEffect(c, en) ==
    /\ DOMAIN assignment' = DOMAIN assignment
    /\ \A i \in DOMAIN assignment \ {c} : assignment'[i] = assignment[i]
    /\ Immutable(assignment'[c]) = Immutable(assignment[c])
    /\ assignment'[c].effective_end =
          IF en # NULL /\ assignment[c].effective_end # en
          THEN en ELSE assignment[c].effective_end

(* C22: when the current assignment as of effective_start has the role and  *)
(* the (possibly null) location of the request, assign inserts no row and   *)
(* leaves role, location and effective_start of every row unchanged; it     *)
(* changes the current row's effective_end only if an explicit              *)
(* effective_end is given that differs from the stored one, and then to     *)
(* exactly that value.                                                      *)
C22_IdentityCase ==
    [][/\ resp'.op \in {"routers_admin_add_assignment", "admin_staff_update_json"}
          => \A sid \in KnownStaff, rc \in SeedRoles, lc \in FormLocInputs, st \in Dates :
                LET c == TheCurrent(RoutersCurrentRows(assignment, sid, st))
                IN  Identical(c, rc, AdminLocId(location, lc))
                    => \A en \in EndInputs :
                          RoutersStepWithEnd(sid, rc, lc, st, en) => IdentityEffect(c, en)
       /\ resp'.op = "main_admin_add_assignment"
          => \A sid \in KnownStaff, rc \in SeedRoles, lc \in FormLocInputs, st \in Dates :
                LET c == TheCurrent(MainCurrentRows(assignment, sid, st))
                IN  Identical(c, rc, AdminLocId(location, lc))
                    => \A en \in EndInputs :
                          MainStepWithEnd(sid, rc, lc, st, en) => IdentityEffect(c, en)
      ]_vars

(* an assign call has left the only row of the ledger, which started        *)
(* before today, with an explicit end                                       *)
C22_Witness ==
    /\ resp.op \in {"routers_admin_add_assignment", "main_admin_add_assignment"}
    /\ \E c \in DOMAIN assignment :
          /\ DOMAIN assignment = {c}
          /\ assignment[c].effective_end # NULL
          /\ assignment[c].effective_end > assignment[c].effective_start
          /\ assignment[c].location_id # None

(* no row the query can return as current has the requested role and location *)
NoneIdentical(rows, rc, lid) ==
    \A c \in FirstByStartDesc(assignment, rows) : ~Identical(c, rc, lid)

(* every row keeps its effective_end, or gets the closing date in place of  *)
(* no end or of a later end                                                 *)
ClosedNoLaterThan(closing) ==
    \A i \in DOMAIN assignment :
        \/ assignment'[i].effective_end = assignment[i].effective_end
        \/ /\ assignment'[i].effective_end = closing
           /\ (assignment[i].effective_end = NULL \/ assignment[i].effective_end > closing)

Differs(c, rc, lid) ==
    c # NULL /\ ~(assignment[c].role_id = rc /\ assignment[c].location_id = lid)

(* after the step row c ends on the day before st, one row is new, it       *)
(* starts on st, and no date is in both (ends inclusive)                    *)
EndedTheDayBefore(c, sid, st) ==
    /\ assignment'[c].effective_end = st - 1
    /\ \E n \in DOMAIN assignment' :
          /\ DOMAIN assignment' \ DOMAIN assignment = {n}
          /\ assignment'[n].staff_id = sid
          /\ assignment'[n].effective_start = st
          /\ \A D \in Dates : ~(MatchesDay(assignment'[c], D) /\ MatchesDay(assignment'[n], D))

-----------------------------------------------------------------------------
(* Claims about the schema bootstrap *)

(* running bootstrap_schema on the tables a run leaves gives the same codes *)
RunTwiceIsRunOnce ==
    \A allowed_roles \in AllowedRoleSets, allowed_locs \in AllowedLocSets :
        LET roles1 == Prune(role \cup BootRoles, allowed_roles, Referenced(assignment, "role_id"))
            locs1 == Prune(location \cup BootLocations, allowed_locs,
                           Referenced(assignment, "location_id"))
        IN  /\ Prune(roles1 \cup BootRoles, allowed_roles, Referenced(assignment, "role_id"))
               = roles1
            /\ Prune(locs1 \cup BootLocations, allowed_locs,
                     Referenced(assignment, "location_id")) = locs1

(* a run deletes only codes that no assignment references and that are      *)
(* outside the allowed lists, and leaves the ledger alone                   *)
PrunesOnlyUnreferenced ==
    resp'.op = "bootstrap_schema"
    => \A allowed_roles \in AllowedRoleSets, allowed_locs \in AllowedLocSets :
          bootstrap_schema(allowed_roles, allowed_locs)
          => /\ \A i \in DOMAIN assignment :
                   /\ assignment[i].role_id \in role => assignment[i].role_id \in role'
                   /\ assignment[i].location_id \in location
                      => assignment[i].location_id \in location'
             /\ (role \ role') \cap allowed_roles = {}
             /\ (location \ location') \cap allowed_locs = {}
             /\ assignment' = assignment

-----------------------------------------------------------------------------
(* Claims about taking a staff member off and putting them back *)

AdminEndOps == {"main_admin_end_staff", "routers_admin_end_staff"}
AdminReactivateOps == {"main_admin_reactivate_staff", "routers_admin_reactivate_staff"}

(* the step is one of the two admin end forms for sid with the date d *)
AdminEndStep(sid, d) ==
    \/ /\ resp'.op = "main_admin_end_staff"
       /\ \E end_date \in EndInputs :
             /\ d = (IF end_date = NULL THEN today ELSE end_date)
             /\ MainAdminEndStaff(sid, end_date)
    \/ /\ resp'.op = "routers_admin_end_staff"
       /\ \E end_date \in EndInputs :
             /\ d = (IF end_date = NULL THEN today ELSE end_date)
             /\ RoutersAdminEndStaff(sid, end_date)

(* the rows of sid in effect on d end on d after the step, and no other row *)
(* of the ledger changes                                                    *)
ClosesExactlyInEffect(sid, d) ==
    /\ DOMAIN assignment' = DOMAIN assignment
    /\ \A i \in DOMAIN assignment :
          IF assignment[i].staff_id = sid /\ assignment[i].effective_start <= d
          THEN /\ assignment'[i].effective_end # NULL
               /\ assignment'[i].effective_end <= d
               /\ assignment'[i] =
                    IF assignment[i].effective_end = NULL \/ d < assignment[i].effective_end
                    THEN [assignment[i] EXCEPT !.effective_end = d]
                    ELSE assignment[i]
          ELSE assignment'[i] = assignment[i]

(* C26: ending a staff member through the admin end operation with date d   *)
(* closes exactly the assignments in effect on d: afterwards every          *)
(* assignment of that staff member with effective_start <= d has a non-null *)
(* effective_end <= d, and the assignments with effective_start > d and the *)
(* assignments of other staff members are unchanged.                        *)
C26_EndClosesInEffect ==
    [][resp'.op \in AdminEndOps
       => \A sid \in StaffIds, d \in Dates :
             AdminEndStep(sid, d) => ClosesExactlyInEffect(sid, d)
      ]_vars

(* an admin end form has ended a staff member on a day d: one of their rows *)
(* ends on d, a later one is still open-ended, and so is a row of another   *)
(* staff member that started by d                                           *)
C26_Witness ==
    /\ resp.op \in AdminEndOps
    /\ \E sid \in DOMAIN staff, a, b \in DOMAIN assignment :
          /\ staff[sid].end_date # NULL
          /\ assignment[a].staff_id = sid
          /\ assignment[a].effective_start <= staff[sid].end_date
          /\ assignment[a].effective_end = staff[sid].end_date
          /\ assignment[b].effective_end = NULL
          /\ \/ assignment[b].staff_id = sid
                /\ assignment[b].effective_start > staff[sid].end_date
             \/ assignment[b].staff_id # sid
                /\ assignment[b].effective_start <= staff[sid].end_date

(* the step is one of the two admin reactivate forms for sid *)
AdminReactivateStep(sid) ==
    \/ resp'.op = "main_admin_reactivate_staff" /\ MainAdminReactivateStaff(sid)
    \/ resp'.op = "routers_admin_reactivate_staff" /\ RoutersAdminReactivateStaff(sid)

(* an admin end form has just run and sid is ended: every row of sid that   *)
(* started by the staff end_date is closed by then                          *)
JustEnded(sid) ==
    /\ resp.op \in AdminEndOps
    /\ sid \in DOMAIN staff
    /\ staff[sid].end_date # NULL
    /\ \A i \in RowsOf(assignment, sid) :
          assignment[i].effective_start <= staff[sid].end_date
          => /\ assignment[i].effective_end # NULL
             /\ assignment[i].effective_end <= staff[sid].end_date

(* the step changes nothing but end_date and status of the staff row sid,   *)
(* and leaves end_date null                                                 *)
OnlyStaffRow(sid) ==
    /\ assignment' = assignment
    /\ DOMAIN staff' = DOMAIN staff
    /\ \A o \in DOMAIN staff \ {sid} : staff'[o] = staff[o]
    /\ sid \in DOMAIN staff
       => /\ staff'[sid].end_date = NULL
          /\ staff'[sid] = [staff[sid] EXCEPT !.end_date = NULL,
                                              !.status = staff'[sid].status]

(* a step that is no assign leaves no row open-ended that was not           *)
NoNewOpenEnded ==
    resp'.op # "routers_admin_add_assignment"
    => \A i \in DOMAIN assignment' :
          assignment'[i].effective_end = NULL
          => i \in DOMAIN assignment /\ assignment[i].effective_end = NULL

(* C27, as stated: reactivate leaves the ledger unchanged and modifies only *)
(* the staff row (end_date, status), so after end(staff, d) followed by     *)
(* reactivate(staff) the assignments that end closed remain closed at d and *)
(* the staff member is active with no open-ended assignment until a new     *)
(* assign is made.                                                          *)
C27_ReactivateKeepsLedger ==
    [][/\ NoNewOpenEnded
       /\ resp'.op \in AdminReactivateOps
          => \A sid \in StaffIds :
                AdminReactivateStep(sid)
                => /\ OnlyStaffRow(sid)
                   /\ JustEnded(sid)
                      => \A i \in RowsOf(assignment', sid) :
                            assignment'[i].effective_end # NULL
      ]_vars

(* C27, amended: reactivate leaves the ledger unchanged and modifies only   *)
(* the staff row (end_date, status), so after end(staff, d) followed by     *)
(* reactivate(staff) the assignments that end closed remain closed at d and *)
(* the staff member is active with no open-ended assignment that starts on  *)
(* or before d until a new assign is made; an open-ended assignment that    *)
(* starts after d stays open through both calls.                            *)
C27_ReactivateKeepsLedgerUpToD ==
    [][/\ NoNewOpenEnded
       /\ resp'.op \in AdminReactivateOps
          => \A sid \in StaffIds :
                AdminReactivateStep(sid)
                => /\ OnlyStaffRow(sid)
                   /\ JustEnded(sid)
                      => \A i \in RowsOf(assignment', sid) :
                            IF assignment'[i].effective_start <= staff[sid].end_date
                            THEN /\ assignment'[i].effective_end # NULL
                                 /\ assignment'[i].effective_end <= staff[sid].end_date
                            ELSE assignment'[i] = assignment[i]
      ]_vars

(* a staff member was ended and reactivated: the record has no end_date,    *)
(* one of their rows is closed and a row that starts later is open-ended    *)
C27_Witness ==
    /\ resp.op \in AdminReactivateOps
    /\ \E sid \in DOMAIN staff : \E a, b \in RowsOf(assignment, sid) :
          /\ staff[sid].end_date = NULL
          /\ assignment[a].effective_end # NULL
          /\ assignment[b].effective_end = NULL
          /\ assignment[b].effective_start > assignment[a].effective_end

-----------------------------------------------------------------------------
(* Claims about creating staff with an initial role *)

(* the step is create_staff with these inputs for a mobile no staff row holds *)
CreateWithRoleStep(m, sd, rc, lc) ==
    /\ resp'.op = "create_staff"
    /\ \A i \in DOMAIN staff : staff[i].mobile # Strip(m)
    /\ MainCreateStaff("Jane", "Doe", m, sd, None, rc, lc)

(* one staff row is new, it starts on sd; one assignment row is new, it is  *)
(* the new staff member's, from sd, open-ended, for rc at lc; no other row  *)
(* of either table changes                                                  *)
OneStaffOneAssignment(sd, rc, lc) ==
    /\ \E n \in DOMAIN staff' :
          /\ DOMAIN staff' \ DOMAIN staff = {n}
          /\ staff'[n].start_date = sd
          /\ \E a \in DOMAIN assignment' :
                /\ DOMAIN assignment' \ DOMAIN assignment = {a}
                /\ assignment'[a] = AssignmentRow(n, rc, lc, sd, NULL, 0)
    /\ \A i \in DOMAIN staff : staff'[i] = staff[i]
    /\ \A i \in DOMAIN assignment : assignment'[i] = assignment[i]

(* C28: create_staff with an initial role is atomic: when a primary role    *)
(* code and a location code are supplied and either does not resolve, the   *)
(* call fails and neither the staff row nor an assignment row is persisted; *)
(* when both resolve, exactly one staff row and exactly one open-ended      *)
(* assignment starting on the staff start_date are persisted.  The call is  *)
(* one for a mobile that no staff row holds.                                *)
C28_CreateWithRoleAtomic ==
    [][resp'.op = "create_staff"
       => \A m \in CreateMobiles, sd \in Dates,
             rc \in CreateRoles \ {None}, lc \in CreateLocs \ {None} :
             CreateWithRoleStep(m, sd, rc, lc)
             => IF rc \in role /\ lc \in location
                THEN resp'.status = 201 /\ OneStaffOneAssignment(sd, rc, lc)
                ELSE /\ resp'.status = 400
                     /\ staff' = staff
                     /\ assignment' = assignment
      ]_vars

(* create_staff has refused a code that does not resolve while the store    *)
(* holds a staff member created with their first assignment                 *)
C28_Witness ==
    /\ resp = Response("create_staff", 400)
    /\ Cardinality(DOMAIN staff) = 1
    /\ \E n \in DOMAIN staff, a \in DOMAIN assignment :
          assignment[a] = AssignmentRow(n, "RIDER", "CRANBOURNE", staff[n].start_date, NULL, 0)

-----------------------------------------------------------------------------
(* Claims about add_role_assignment *)

(* the intervals [s1, e1] and [s2, e2] share a date, ends inclusive, a null *)
(* end unbounded                                                            *)
Overlap(s1, e1, s2, e2) ==
    /\ (e2 = NULL \/ s1 <= e2)
    /\ (e1 = NULL \/ s2 <= e1)

(* sid has a row of the same role and location that overlaps [st, en] *)
OverlappingDuplicate(sid, rc, lid, st, en) ==
    \E i \in RowsOf(assignment, sid) :
        /\ assignment[i].role_id = rc
        /\ assignment[i].location_id = lid
        /\ Overlap(assignment[i].effective_start, assignment[i].effective_end, st, en)

(* C29: add_role_assignment rejects overlapping duplicates: when the staff  *)
(* member has an assignment with the same role and the same (possibly null) *)
(* location whose interval overlaps the new one (both ends inclusive, a     *)
(* null end unbounded), the call fails with a conflict and inserts nothing; *)
(* otherwise it inserts exactly one new row and modifies no existing row,   *)
(* even when an assignment with a different role or location is in effect   *)
(* on the new start date.                                                   *)
C29_OverlappingDuplicateRejected ==
    [][resp'.op = "add_role_assignment"
       => \A sid \in KnownStaff, rc \in SeedRoles, lc \in FormLocInputs, st \in Dates,
             en \in EndInputs :
             MainAddRoleAssignment(sid, rc, lc, st, en, 0)
             => LET lid == IF lc = "" THEN None ELSE lc
                IN  IF OverlappingDuplicate(sid, rc, lid, st, en)
                    THEN resp'.status = 409 /\ assignment' = assignment
                    ELSE /\ resp'.status = 201
                         /\ \E n \in DOMAIN assignment' :
                               /\ DOMAIN assignment' \ DOMAIN assignment = {n}
                               /\ assignment'[n] = AssignmentRow(sid, rc, lid, st, en, 0)
                         /\ \A i \in DOMAIN assignment : assignment'[i] = assignment[i]
      ]_vars

(* add_role_assignment has inserted a row and the ledger holds two rows of  *)
(* one staff member that differ in role or location, one of them in effect  *)
(* on the start date of the other                                           *)
C29_Witness ==
    /\ resp = Response("add_role_assignment", 201)
    /\ \E a, b \in DOMAIN assignment :
          /\ a # b
          /\ assignment[a].staff_id = assignment[b].staff_id
          /\ ~SameRoleLoc(assignment[a], assignment[b].role_id, assignment[b].location_id)
          /\ MatchesDay(assignment[a], assignment[b].effective_start)

-----------------------------------------------------------------------------
(* Claims about the status column *)

(* C30: after any sequence of the routers/admin.py operations JSON create,  *)
(* JSON update, end staff and reactivate, every staff row has status =      *)
(* 'ACTIVE' exactly when its end_date is null and status = 'INACTIVE'       *)
(* exactly when its end_date is non-null.                                   *)
C30_StatusMatchesEndDate ==
    \A sid \in DOMAIN staff :
        /\ staff[sid].status = "ACTIVE" <=> staff[sid].end_date = NULL
        /\ staff[sid].status = "INACTIVE" <=> staff[sid].end_date # NULL

(* the admin end form has ended a staff member before today, next to a      *)
(* staff member that the JSON create stored active                          *)
C30_Witness ==
    /\ resp.op = "routers_admin_end_staff"
    /\ \E s1, s2 \in DOMAIN staff :
          /\ staff[s1].status = "INACTIVE"
          /\ staff[s1].end_date # NULL
          /\ staff[s1].end_date < today
          /\ staff[s2].status = "ACTIVE"
          /\ staff[s2].start_date > 1

====
